---- MODULE Spec2Model ----
(***************************************************************************)
(* Alert escalation pipeline of the pilferage monitor:                     *)
(*   geofences.py        is_in_authorized_zone                             *)
(*   stop_analyzer.py    StopAnalyzer.process_reading                      *)
(*   weight_analyzer.py  EnhancedWeightAnalyzer.process_reading            *)
(*   escalation.py       EscalationEngine                                  *)
(*   app.py              process_event (reading -> analyzers -> engine)    *)
(*   simulator.py        TransitSimulator.generate_pilferage_scenario      *)
(*                                                                         *)
(* Time is in whole minutes, weight in whole kg.  A position is a point of *)
(* a plane grid whose unit is 100 m (latitude and longitude measured from  *)
(* 22.0 N, 86.0 E); the great-circle distance is the plane distance, which *)
(* is compared with a radius by comparing the squares.  Wall-clock stamps  *)
(* taken with datetime.now() (the date inside an alert id, the stamp of an *)
(* escalation-history entry, resolution_time) are not kept.  None is the   *)
(* empty sequence, a returned object x is <<x>>.  A formatted text is a    *)
(* record of its fixed part and the values formatted into it.              *)
(***************************************************************************)
EXTENDS Integers, Sequences, FiniteSets, Bags, TLC

VARIABLES
    active_alerts,        \* EscalationEngine.active_alerts: alert_id -> Alert
    alert_history,        \* EscalationEngine.alert_history: list of Alert
    alert_counter,        \* EscalationEngine.alert_counter
    callbacks,            \* the on_* hooks that are set (not None)
    invoked,              \* bag of <<hook, alert_id>>: hook calls made so far
    active_stops,         \* StopAnalyzer.active_stops: truck_id -> stop info
    completed_stops,      \* StopAnalyzer.completed_stops
    weight_profiles,      \* EnhancedWeightAnalyzer.weight_profiles
    previous_weights,     \* EnhancedWeightAnalyzer.previous_weights
    weight_alerts,        \* EnhancedWeightAnalyzer.weight_alerts
    total_detected_loss,  \* EnhancedWeightAnalyzer.total_detected_loss
    call,                 \* the operation invoked last, with its arguments
    result,               \* what that operation returned
    scenario,             \* arguments of generate_pilferage_scenario
    index                 \* number of generated readings processed so far

engine_vars   == <<active_alerts, alert_history, alert_counter, callbacks, invoked>>
stop_vars     == <<active_stops, completed_stops>>
weight_vars   == <<weight_profiles, previous_weights, weight_alerts, total_detected_loss>>
driver_vars   == <<scenario, index>>
vars == <<engine_vars, stop_vars, weight_vars, call, result, driver_vars>>

None == <<>>
Some(x) == <<x>>

Min(a, b) == IF a <= b THEN a ELSE b

\* dict[k] = v
Put(d, k, v) == (k :> v) @@ d
\* dict.pop(k)
Pop(d, k) == [x \in DOMAIN d \ {k} |-> d[x]]
EmptyDict == <<>>

(***************************************************************************)
(* Bounds of the model                                                     *)
(***************************************************************************)
\* alerts the engine creates in a run of the engine operations
MaxAlerts == 2

Trucks == {"TS-JH-1001", "TS-JH-1002"}

(***************************************************************************)
(* escalation.py: AlertLevel                                               *)
(***************************************************************************)
NORMAL == 0
WATCHLIST == 1
WARNING == 2
CRITICAL == 3
EMERGENCY == 4

AlertLevels == NORMAL..EMERGENCY

\* AlertLevel.name
LevelName(level) ==
    CASE level = NORMAL -> "NORMAL"
      [] level = WATCHLIST -> "WATCHLIST"
      [] level = WARNING -> "WARNING"
      [] level = CRITICAL -> "CRITICAL"
      [] level = EMERGENCY -> "EMERGENCY"

Hooks == {"on_sms_driver", "on_call_driver", "on_alert_control_center",
          "on_dispatch_security"}

\* _generate_alert_id, given the incremented counter: "ALT-<date>-<counter:04d>"
\* as GenerateAlertId, with the date but not the counter in the id
GenerateAlertId_DateOnly(counter) == <<"ALT", 1>>

GenerateAlertId(counter) == <<"ALT", counter>>

\* Alert(...) as the three process_* methods construct it
NewAlert(id, truck, ts, level, source, title, description, lat, lon) ==
    [alert_id |-> id, truck_id |-> truck, timestamp |-> ts, level |-> level,
     source |-> source, title |-> title, description |-> description,
     latitude |-> lat, longitude |-> lon,
     actions_taken |-> <<>>, escalation_history |-> <<>>,
     is_resolved |-> FALSE, resolution_notes |-> ""]

\* as LevelActions, with the control-center notice left out
LevelActions_NoControlCenter(level) ==
    LET a1 == IF level >= WATCHLIST
                THEN <<"Logged to system audit trail">> ELSE <<>>
        a2 == IF level >= WARNING
                THEN a1 \o <<"SMS sent to driver requesting confirmation">> ELSE a1
        a3 == IF level >= CRITICAL
                THEN a2 \o <<"Auto-call initiated to driver">> ELSE a2
        a4 == IF level >= EMERGENCY
                THEN a3 \o <<"Security team dispatched",
                             "Nearest police station notified",
                             "Cargo lock signal sent (if available)">>
                ELSE a3
    IN  a4

\* _execute_level_actions: the action texts for a level
LevelActions(level) ==
    LET a1 == IF level >= WATCHLIST
                THEN <<"Logged to system audit trail">> ELSE <<>>
        a2 == IF level >= WARNING
                THEN a1 \o <<"SMS sent to driver requesting confirmation">> ELSE a1
        a3 == IF level >= CRITICAL
                THEN a2 \o <<"Auto-call initiated to driver", "Control center notified">>
                ELSE a2
        a4 == IF level >= EMERGENCY
                THEN a3 \o <<"Security team dispatched",
                             "Nearest police station notified",
                             "Cargo lock signal sent (if available)">>
                ELSE a3
    IN  a4

\* _execute_level_actions: the hooks it calls for a level, those that are set
LevelHooks(level, cbs) ==
    ((IF level >= WARNING THEN {"on_sms_driver"} ELSE {})
      \cup (IF level >= CRITICAL
              THEN {"on_call_driver", "on_alert_control_center"} ELSE {})
      \cup (IF level >= EMERGENCY THEN {"on_dispatch_security"} ELSE {}))
    \cap cbs

\* _execute_level_actions: the alert after it
\* as ExecuteLevelActions, the history holding the latest attachment only
ExecuteLevelActions_OverwritesHistory(alert) ==
    LET actions == LevelActions(alert.level)
    IN  [alert EXCEPT
            !.actions_taken = actions,
            !.escalation_history =
                <<[level |-> LevelName(alert.level), actions |-> actions]>>]

ExecuteLevelActions(alert) ==
    LET actions == LevelActions(alert.level)
    IN  [alert EXCEPT
            !.actions_taken = actions,
            !.escalation_history =
                Append(@, [level |-> LevelName(alert.level), actions |-> actions])]

\* as InvokeHooks, a hook being called for an alert once only
InvokeHooks_OncePerAlert(alert, cbs, bag) ==
    bag (+) SetToBag({<<h, alert.alert_id>> :
                        h \in {g \in LevelHooks(alert.level, cbs) :
                                 ~BagIn(<<g, alert.alert_id>>, bag)}})

\* _execute_level_actions: the hook calls it adds for this alert
InvokeHooks(alert, cbs, bag) ==
    bag (+) SetToBag({<<h, alert.alert_id>> : h \in LevelHooks(alert.level, cbs)})

\* as StopEventLevel, with the duration tested before the authorization
StopEventLevel_DurationFirst(event) ==
    IF event.duration_minutes >= 15
      THEN WARNING
      ELSE WATCHLIST

\* process_stop_event: level and title of the new alert
StopEventLevel(event) ==
    IF event.is_authorized
      THEN WATCHLIST
      ELSE IF event.duration_minutes >= 15 THEN WARNING ELSE WATCHLIST

StopEventTitle(event) ==
    IF event.is_authorized
      THEN "Extended Stop at Authorized Location"
      ELSE IF event.duration_minutes >= 15
             THEN "Suspicious Unauthorized Stop"
             ELSE "Unauthorized Stop Detected"

\* as WeightAlertLevel, with a test for 'high' that never matches
WeightAlertLevel_HighFallsThrough(weight_alert) ==
    IF weight_alert.severity = "critical" THEN CRITICAL
    ELSE IF weight_alert.severity = "High" THEN WARNING
    ELSE WATCHLIST

\* process_weight_alert: level and title of the new alert
WeightAlertLevel(weight_alert) ==
    IF weight_alert.severity = "critical" THEN CRITICAL
    ELSE IF weight_alert.severity = "high" THEN WARNING
    ELSE WATCHLIST

WeightAlertTitle(weight_alert) ==
    IF weight_alert.severity = "critical" THEN "CRITICAL: Potential Pilferage Detected"
    ELSE IF weight_alert.severity = "high" THEN "Suspicious Weight Drop"
    ELSE "Weight Anomaly Detected"

\* as CombinedEventLevel, one level short
CombinedEventLevel_Critical == CRITICAL

\* process_combined_event: level and description of the new alert
CombinedEventLevel == EMERGENCY

CombinedDescription(stop_event, weight_alert) ==
    <<[text |-> "SOP TRIGGERED", weight_drop_kg |-> weight_alert.weight_drop_kg,
       duration_minutes |-> stop_event.duration_minutes]>>

\* the engine object: the fields of EscalationEngine
Engine ==
    [active_alerts |-> active_alerts, alert_history |-> alert_history,
     alert_counter |-> alert_counter, callbacks |-> callbacks, invoked |-> invoked]

\* the escalation timeouts, in minutes; no method of the engine reads them
L2_TIMEOUT_MIN == 5
L3_TIMEOUT_MIN == 3

\* as StoreNewAlert, first raising every active Warning alert that has waited
\* L2_TIMEOUT_MIN for the driver and every Critical one that has waited
\* L3_TIMEOUT_MIN
StoreNewAlert_EscalatesOverdue(eng, alert) ==
    LET Overdue(a) ==
            \/ a.level = WARNING /\ alert.timestamp - a.timestamp >= L2_TIMEOUT_MIN
            \/ a.level = CRITICAL /\ alert.timestamp - a.timestamp >= L3_TIMEOUT_MIN
        Waited(a) ==
            IF Overdue(a)
              THEN ExecuteLevelActions([a EXCEPT !.level = @ + 1])
              ELSE a
    IN  [eng |-> [eng EXCEPT
                    !.alert_counter = @ + 1,
                    !.active_alerts =
                        Put([id \in DOMAIN @ |-> Waited(@[id])], alert.alert_id,
                            ExecuteLevelActions(alert)),
                    !.invoked = InvokeHooks(alert, eng.callbacks, @)],
         ret |-> Some(ExecuteLevelActions(alert))]

\* the tail of the three process_* methods: attach actions, store, return.
\* The id was drawn first, so the counter is already incremented.
StoreNewAlert(eng, alert) ==
    [eng |-> [eng EXCEPT
                !.alert_counter = @ + 1,
                !.active_alerts = Put(@, alert.alert_id, ExecuteLevelActions(alert)),
                !.invoked = InvokeHooks(alert, eng.callbacks, @)],
     ret |-> Some(ExecuteLevelActions(alert))]

process_stop_event(eng, event) ==
    IF ~event.is_suspicious
      THEN [eng |-> eng, ret |-> None]
      ELSE StoreNewAlert(eng,
             NewAlert(GenerateAlertId(eng.alert_counter + 1), event.truck_id,
                      event.start_time, StopEventLevel(event), "stop_analyzer",
                      StopEventTitle(event), <<event.reason>>,
                      event.latitude, event.longitude))

\* as process_weight_alert, without the early return
process_weight_alert_NoEarlyReturn(eng, weight_alert) ==
    StoreNewAlert(eng,
      NewAlert(GenerateAlertId(eng.alert_counter + 1), weight_alert.truck_id,
               weight_alert.timestamp, WeightAlertLevel(weight_alert),
               "weight_analyzer", WeightAlertTitle(weight_alert),
               <<weight_alert.reason>>,
               weight_alert.latitude, weight_alert.longitude))

process_weight_alert(eng, weight_alert) ==
    IF ~weight_alert.is_suspicious
      THEN [eng |-> eng, ret |-> None]
      ELSE StoreNewAlert(eng,
             NewAlert(GenerateAlertId(eng.alert_counter + 1), weight_alert.truck_id,
                      weight_alert.timestamp, WeightAlertLevel(weight_alert),
                      "weight_analyzer", WeightAlertTitle(weight_alert),
                      <<weight_alert.reason>>,
                      weight_alert.latitude, weight_alert.longitude))

process_combined_event(eng, stop_event, weight_alert) ==
    StoreNewAlert(eng,
      NewAlert(GenerateAlertId(eng.alert_counter + 1), stop_event.truck_id,
               weight_alert.timestamp, CombinedEventLevel, "combined",
               "EMERGENCY: Weight Drop During Unauthorized Stop",
               CombinedDescription(stop_event, weight_alert),
               stop_event.latitude, stop_event.longitude))

\* as NextLevel, wrapping past Critical
NextLevel_Wraps(level) == (level + 1) % 4

\* as NextLevel, two levels at a time
NextLevel_Skips(level) == Min(level + 2, EMERGENCY)

\* escalate_alert: AlertLevel(alert.level + 1)
NextLevel(level) == level + 1

\* escalate_alert: the test that lets an alert rise
BelowEmergency(alert) == alert.level < EMERGENCY

\* escalate_alert: the alert with its level and description changed
Raised(alert, reason) ==
    [alert EXCEPT !.level = NextLevel(alert.level),
                  !.description = Append(@, [text |-> "ESCALATED", reason |-> reason])]

\* as escalate_alert, with _execute_level_actions run outside the level test
escalate_alert_AlwaysReattaches(eng, alert_id, reason) ==
    IF alert_id \notin DOMAIN eng.active_alerts
      THEN [eng |-> eng, ret |-> None]
      ELSE LET alert == eng.active_alerts[alert_id]
               raised == IF BelowEmergency(alert) THEN Raised(alert, reason) ELSE alert
           IN  [eng |-> [eng EXCEPT
                           !.active_alerts =
                               Put(@, alert_id, ExecuteLevelActions(raised)),
                           !.invoked = InvokeHooks(raised, eng.callbacks, @)],
                ret |-> Some(ExecuteLevelActions(raised))]

escalate_alert(eng, alert_id, reason) ==
    IF alert_id \notin DOMAIN eng.active_alerts
      THEN [eng |-> eng, ret |-> None]
      ELSE LET alert == eng.active_alerts[alert_id]
           IN  IF BelowEmergency(alert)
                 THEN LET raised == Raised(alert, reason)
                      IN  [eng |-> [eng EXCEPT
                                      !.active_alerts =
                                          Put(@, alert_id, ExecuteLevelActions(raised)),
                                      !.invoked = InvokeHooks(raised, eng.callbacks, @)],
                           ret |-> Some(ExecuteLevelActions(raised))]
                 ELSE [eng |-> eng, ret |-> Some(alert)]

\* as resolve_alert, leaving the alert in active_alerts
resolve_alert_KeepsActive(eng, alert_id, notes) ==
    IF alert_id \notin DOMAIN eng.active_alerts
      THEN [eng |-> eng, ret |-> None]
      ELSE LET alert == [eng.active_alerts[alert_id] EXCEPT
                            !.is_resolved = TRUE, !.resolution_notes = notes]
           IN  [eng |-> [eng EXCEPT !.active_alerts = Put(@, alert_id, alert),
                                    !.alert_history = Append(@, alert)],
                ret |-> Some(alert)]

\* as resolve_alert, recording the failed lookup of an unknown id in the history
resolve_alert_LogsUnknown(eng, alert_id, notes) ==
    IF alert_id \notin DOMAIN eng.active_alerts
      THEN [eng |-> [eng EXCEPT !.alert_history =
                                   Append(@, [alert_id |-> alert_id, notes |-> notes])],
            ret |-> None]
      ELSE LET alert == [eng.active_alerts[alert_id] EXCEPT
                            !.is_resolved = TRUE, !.resolution_notes = notes]
           IN  [eng |-> [eng EXCEPT !.active_alerts = Pop(@, alert_id),
                                    !.alert_history = Append(@, alert)],
                ret |-> Some(alert)]

\* as Resolved, without the is_resolved flag
Resolved_NotFlagged(alert, notes) == [alert EXCEPT !.resolution_notes = notes]

\* resolve_alert: the alert as it enters alert_history
Resolved(alert, notes) ==
    [alert EXCEPT !.is_resolved = TRUE, !.resolution_notes = notes]

resolve_alert(eng, alert_id, notes) ==
    IF alert_id \notin DOMAIN eng.active_alerts
      THEN [eng |-> eng, ret |-> None]
      ELSE LET alert == Resolved(eng.active_alerts[alert_id], notes)
           IN  [eng |-> [eng EXCEPT !.active_alerts = Pop(@, alert_id),
                                    !.alert_history = Append(@, alert)],
                ret |-> Some(alert)]

\* list(self.active_alerts.values()): the values in insertion order, which is
\* the order of the counters in the ids (an id is inserted once, when its
\* alert is created, and escalate_alert changes the alert in place)
Values(d) ==
    LET n == Cardinality(DOMAIN d)
        order == CHOOSE s \in [1..n -> DOMAIN d] :
                    \A i, j \in 1..n : i < j => s[i][2] < s[j][2]
    IN  [i \in 1..n |-> d[order[i]]]

\* as get_active_alerts, handing the alerts over and emptying the mapping
get_active_alerts_Drains(eng) ==
    [eng |-> [eng EXCEPT !.active_alerts = EmptyDict],
     ret |-> Values(eng.active_alerts)]

get_active_alerts(eng) ==
    [eng |-> eng, ret |-> Values(eng.active_alerts)]

get_alerts_by_level(eng, level) ==
    [eng |-> eng,
     ret |-> SelectSeq(Values(eng.active_alerts), LAMBDA a : a.level = level)]

\* as CountAtLevel, counting the alerts at the level or above it
CountAtLevel_OrAbove(eng, level) ==
    Len(SelectSeq(Values(eng.active_alerts), LAMBDA a : a.level >= level))

\* get_alert_summary: len([a for a in active_alerts.values() if a.level == level])
CountAtLevel(eng, level) ==
    Len(SelectSeq(Values(eng.active_alerts), LAMBDA a : a.level = level))

get_alert_summary(eng) ==
    [eng |-> eng,
     ret |-> [total_active |-> Cardinality(DOMAIN eng.active_alerts),
              by_level |-> [normal |-> CountAtLevel(eng, NORMAL),
                            watchlist |-> CountAtLevel(eng, WATCHLIST),
                            warning |-> CountAtLevel(eng, WARNING),
                            critical |-> CountAtLevel(eng, CRITICAL),
                            emergency |-> CountAtLevel(eng, EMERGENCY)],
              total_resolved |-> Len(eng.alert_history)]]

\* the engine's fields after an operation
SetEngine(eng) ==
    /\ active_alerts' = eng.active_alerts
    /\ alert_history' = eng.alert_history
    /\ alert_counter' = eng.alert_counter
    /\ callbacks' = eng.callbacks
    /\ invoked' = eng.invoked

(***************************************************************************)
(* geofences.py                                                            *)
(***************************************************************************)
GeofenceZone(name, lat, lon, radius, zone_type, max_stop) ==
    [name |-> name, latitude |-> lat, longitude |-> lon, radius_km |-> radius,
     zone_type |-> zone_type, max_stop_duration_min |-> max_stop]

AUTHORIZED_ZONES ==
    << GeofenceZone("Tata Steel Jamshedpur Plant", 895, 208, 20, "warehouse", 120),
       GeofenceZone("Kharagpur Rest Stop", 385, 1359, 5, "rest_stop", 30),
       GeofenceZone("Kolaghat Checkpoint", 484, 1937, 3, "checkpoint", 15),
       GeofenceZone("Howrah Distribution Center", 663, 2325, 15, "destination", 180) >>

\* haversine_distance(...) <= radius, on the plane grid
WithinRadius(lat1, lon1, lat2, lon2, radius) ==
    (lat2 - lat1) * (lat2 - lat1) + (lon2 - lon1) * (lon2 - lon1) <= radius * radius

\* is_in_authorized_zone: the first zone of the list that holds the point
is_in_authorized_zone(latitude, longitude) ==
    LET hits == {i \in 1..Len(AUTHORIZED_ZONES) :
                    WithinRadius(latitude, longitude, AUTHORIZED_ZONES[i].latitude,
                                 AUTHORIZED_ZONES[i].longitude,
                                 AUTHORIZED_ZONES[i].radius_km)}
    IN  IF hits = {}
          THEN [in_zone |-> FALSE, zone |-> None]
          ELSE [in_zone |-> TRUE,
                zone |-> Some(AUTHORIZED_ZONES[CHOOSE i \in hits : \A j \in hits : i <= j])]

(***************************************************************************)
(* stop_analyzer.py                                                        *)
(***************************************************************************)
MIN_STOP_DURATION_MIN == 3
SUSPICIOUS_UNAUTHORIZED_STOP_MIN == 10

\* the object: the fields of StopAnalyzer
Stops == [active_stops |-> active_stops, completed_stops |-> completed_stops]

\* process_reading, stop begins: the record it stores
StopInfo(reading) ==
    LET z == is_in_authorized_zone(reading.latitude, reading.longitude)
    IN  [start_time |-> reading.timestamp,
         latitude |-> reading.latitude,
         longitude |-> reading.longitude,
         in_authorized_zone |-> z.in_zone,
         zone_name |-> IF z.zone # None THEN Some(z.zone[1].name) ELSE None,
         max_allowed_duration |->
             IF z.zone # None THEN z.zone[1].max_stop_duration_min ELSE 0]

\* as TooShort, one minute more lenient
TooShort_Lenient(duration) == duration < MIN_STOP_DURATION_MIN - 1

\* process_reading, stop ended: the stop is too short to count
TooShort(duration) == duration < MIN_STOP_DURATION_MIN

\* as CompletedStopSuspicious, with the unauthorized threshold excluded
CompletedStopSuspicious_PastThreshold(stop_info, duration) ==
    IF ~stop_info.in_authorized_zone
      THEN duration > SUSPICIOUS_UNAUTHORIZED_STOP_MIN
      ELSE duration > stop_info.max_allowed_duration

\* as CompletedStopSuspicious, with the zone's maximum included
CompletedStopSuspicious_AtMax(stop_info, duration) ==
    IF ~stop_info.in_authorized_zone
      THEN duration >= SUSPICIOUS_UNAUTHORIZED_STOP_MIN
      ELSE duration >= stop_info.max_allowed_duration

\* process_reading, stop ended: is the completed stop suspicious
CompletedStopSuspicious(stop_info, duration) ==
    IF ~stop_info.in_authorized_zone
      THEN duration >= SUSPICIOUS_UNAUTHORIZED_STOP_MIN
      ELSE duration > stop_info.max_allowed_duration

\* process_reading, stop ended: the reason text
CompletedStopReason(stop_info, duration) ==
    IF CompletedStopSuspicious(stop_info, duration)
      THEN IF ~stop_info.in_authorized_zone
             THEN [text |-> "Unauthorized stop", duration |-> duration,
                   threshold |-> SUSPICIOUS_UNAUTHORIZED_STOP_MIN]
             ELSE [text |-> "Stop exceeded allowed duration", duration |-> duration,
                   threshold |-> stop_info.max_allowed_duration]
      ELSE IF stop_info.in_authorized_zone
             THEN [text |-> "Authorized stop", zone_name |-> stop_info.zone_name]
             ELSE [text |-> "Brief unauthorized stop", duration |-> duration,
                   threshold |-> SUSPICIOUS_UNAUTHORIZED_STOP_MIN]

\* process_reading, stop ended: the StopEvent
CompletedStopEvent(truck_id, stop_info, timestamp, duration) ==
    [truck_id |-> truck_id,
     start_time |-> stop_info.start_time,
     end_time |-> Some(timestamp),
     latitude |-> stop_info.latitude,
     longitude |-> stop_info.longitude,
     duration_minutes |-> duration,
     is_authorized |-> stop_info.in_authorized_zone,
     zone_name |-> stop_info.zone_name,
     is_suspicious |-> CompletedStopSuspicious(stop_info, duration),
     reason |-> CompletedStopReason(stop_info, duration)]

\* as OngoingSuspicious, with the threshold excluded
OngoingSuspicious_PastThreshold(stop_info, duration) ==
    ~stop_info.in_authorized_zone /\ duration > SUSPICIOUS_UNAUTHORIZED_STOP_MIN

\* as OngoingSuspicious, whatever the zone the stop began in
OngoingSuspicious_AnyZone(stop_info, duration) ==
    duration >= SUSPICIOUS_UNAUTHORIZED_STOP_MIN

\* process_reading, stop goes on: the test for an ongoing event
OngoingSuspicious(stop_info, duration) ==
    ~stop_info.in_authorized_zone /\ duration >= SUSPICIOUS_UNAUTHORIZED_STOP_MIN

\* process_reading, stop goes on: the StopEvent
OngoingStopEvent(truck_id, stop_info, duration) ==
    [truck_id |-> truck_id,
     start_time |-> stop_info.start_time,
     end_time |-> None,
     latitude |-> stop_info.latitude,
     longitude |-> stop_info.longitude,
     duration_minutes |-> duration,
     is_authorized |-> FALSE,
     zone_name |-> None,
     is_suspicious |-> TRUE,
     reason |-> [text |-> "ONGOING: Unauthorized stop", duration |-> duration]]

\* as stop_process_reading, taking each not-moving reading as the start of the
\* stop
stop_process_reading_RestartsOnTick(st, reading) ==
    LET truck_id == reading.truck_id
        timestamp == reading.timestamp
        is_moving == reading.is_moving
        tracked == truck_id \in DOMAIN st.active_stops
    IN  IF ~is_moving /\ ~tracked
          THEN [st |-> [st EXCEPT !.active_stops = Put(@, truck_id, StopInfo(reading))],
                ret |-> None]
        ELSE IF is_moving /\ tracked
          THEN LET stop_info == st.active_stops[truck_id]
                   duration == timestamp - stop_info.start_time
                   popped == [st EXCEPT !.active_stops = Pop(@, truck_id)]
                   stop_event == CompletedStopEvent(truck_id, stop_info, timestamp, duration)
               IN  IF TooShort(duration)
                     THEN [st |-> popped, ret |-> None]
                     ELSE [st |-> [popped EXCEPT !.completed_stops = Append(@, stop_event)],
                           ret |-> Some(stop_event)]
        ELSE IF ~is_moving /\ tracked
          THEN LET stop_info == st.active_stops[truck_id]
                   duration == timestamp - stop_info.start_time
                   restarted == [st EXCEPT !.active_stops =
                                               Put(@, truck_id, StopInfo(reading))]
               IN  IF OngoingSuspicious(stop_info, duration)
                     THEN [st |-> restarted,
                           ret |-> Some(OngoingStopEvent(truck_id, stop_info, duration))]
                     ELSE [st |-> restarted, ret |-> None]
        ELSE [st |-> st, ret |-> None]

\* StopAnalyzer.process_reading
\* as stop_process_reading, place and zone of a stop being those of the reading
\* at hand
stop_process_reading_LooksUpAgain(st, reading) ==
    LET truck_id == reading.truck_id
        timestamp == reading.timestamp
        is_moving == reading.is_moving
        tracked == truck_id \in DOMAIN st.active_stops
    IN  IF ~is_moving /\ ~tracked
          THEN [st |-> [st EXCEPT !.active_stops = Put(@, truck_id, StopInfo(reading))],
                ret |-> None]
        ELSE IF is_moving /\ tracked
          THEN LET stop_info == [StopInfo(reading) EXCEPT
                                   !.start_time = st.active_stops[truck_id].start_time]
                   duration == timestamp - stop_info.start_time
                   popped == [st EXCEPT !.active_stops = Pop(@, truck_id)]
                   stop_event == CompletedStopEvent(truck_id, stop_info, timestamp, duration)
               IN  IF TooShort(duration)
                     THEN [st |-> popped, ret |-> None]
                     ELSE [st |-> [popped EXCEPT !.completed_stops = Append(@, stop_event)],
                           ret |-> Some(stop_event)]
        ELSE IF ~is_moving /\ tracked
          THEN LET stop_info == [StopInfo(reading) EXCEPT
                                   !.start_time = st.active_stops[truck_id].start_time]
                   duration == timestamp - stop_info.start_time
               IN  IF OngoingSuspicious(stop_info, duration)
                     THEN [st |-> st,
                           ret |-> Some(OngoingStopEvent(truck_id, stop_info, duration))]
                     ELSE [st |-> st, ret |-> None]
        ELSE [st |-> st, ret |-> None]

stop_process_reading(st, reading) ==
    LET truck_id == reading.truck_id
        timestamp == reading.timestamp
        is_moving == reading.is_moving
        tracked == truck_id \in DOMAIN st.active_stops
    IN  IF ~is_moving /\ ~tracked
          THEN [st |-> [st EXCEPT !.active_stops = Put(@, truck_id, StopInfo(reading))],
                ret |-> None]
        ELSE IF is_moving /\ tracked
          THEN LET stop_info == st.active_stops[truck_id]
                   duration == timestamp - stop_info.start_time
                   popped == [st EXCEPT !.active_stops = Pop(@, truck_id)]
                   stop_event == CompletedStopEvent(truck_id, stop_info, timestamp, duration)
               IN  IF TooShort(duration)
                     THEN [st |-> popped, ret |-> None]
                     ELSE [st |-> [popped EXCEPT !.completed_stops = Append(@, stop_event)],
                           ret |-> Some(stop_event)]
        ELSE IF ~is_moving /\ tracked
          THEN LET stop_info == st.active_stops[truck_id]
                   duration == timestamp - stop_info.start_time
               IN  IF OngoingSuspicious(stop_info, duration)
                     THEN [st |-> st,
                           ret |-> Some(OngoingStopEvent(truck_id, stop_info, duration))]
                     ELSE [st |-> st, ret |-> None]
        ELSE [st |-> st, ret |-> None]

(***************************************************************************)
(* weight_analyzer.py                                                      *)
(***************************************************************************)
SENSOR_NOISE_KG == 10
ACCEPTABLE_LOSS_KG == 20
SUSPICIOUS_DROP_KG == 50
CRITICAL_DROP_KG == 200
\* register_trip: the default of packaging_weight
DEFAULT_PACKAGING_KG == 50

\* the object: the fields of EnhancedWeightAnalyzer
Weights ==
    [weight_profiles |-> weight_profiles, previous_weights |-> previous_weights,
     weight_alerts |-> weight_alerts, total_detected_loss |-> total_detected_loss]

Abs(x) == IF x < 0 THEN -x ELSE x

\* dict.get(k, default)
Get(d, k, default) == IF k \in DOMAIN d THEN d[k] ELSE default

\* as register_trip, starting the loss count of every truck afresh
register_trip_ResetsAllLosses(wa, truck_id, total_weight, packaging_weight, destination) ==
    [wa EXCEPT
        !.weight_profiles =
            Put(@, truck_id,
                [truck_id |-> truck_id, total_weight_kg |-> total_weight,
                 packaging_weight_kg |-> packaging_weight,
                 actual_cargo_kg |-> total_weight - packaging_weight,
                 destination |-> destination]),
        !.previous_weights = Put(@, truck_id, total_weight),
        !.total_detected_loss = [t \in DOMAIN @ \cup {truck_id} |-> 0]]

register_trip(wa, truck_id, total_weight, packaging_weight, destination) ==
    [wa EXCEPT
        !.weight_profiles =
            Put(@, truck_id,
                [truck_id |-> truck_id, total_weight_kg |-> total_weight,
                 packaging_weight_kg |-> packaging_weight,
                 actual_cargo_kg |-> total_weight - packaging_weight,
                 destination |-> destination]),
        !.previous_weights = Put(@, truck_id, total_weight),
        !.total_detected_loss = Put(@, truck_id, 0)]

\* process_reading: a drop outside every authorized zone, by its size
\* as OutsideZoneClass, a minor drop being flagged as well
OutsideZoneClass_FlagsMinor(weight_drop) ==
    IF weight_drop >= CRITICAL_DROP_KG
      THEN [is_suspicious |-> TRUE, severity |-> "critical",
            reason |-> [text |-> "CRITICAL: drop OUTSIDE authorized zone",
                        drop |-> weight_drop]]
    ELSE IF weight_drop >= SUSPICIOUS_DROP_KG
      THEN [is_suspicious |-> TRUE, severity |-> "high",
            reason |-> [text |-> "Suspicious: drop outside authorized zone",
                        drop |-> weight_drop]]
    ELSE [is_suspicious |-> TRUE, severity |-> "medium",
          reason |-> [text |-> "Minor drop outside zone (monitoring)",
                      drop |-> weight_drop]]

OutsideZoneClass(weight_drop) ==
    IF weight_drop >= CRITICAL_DROP_KG
      THEN [is_suspicious |-> TRUE, severity |-> "critical",
            reason |-> [text |-> "CRITICAL: drop OUTSIDE authorized zone",
                        drop |-> weight_drop]]
    ELSE IF weight_drop >= SUSPICIOUS_DROP_KG
      THEN [is_suspicious |-> TRUE, severity |-> "high",
            reason |-> [text |-> "Suspicious: drop outside authorized zone",
                        drop |-> weight_drop]]
    ELSE [is_suspicious |-> FALSE, severity |-> "medium",
          reason |-> [text |-> "Minor drop outside zone (monitoring)",
                      drop |-> weight_drop]]

\* as InZoneClass, without the destination case
InZoneClass_AlwaysVerify(zone) ==
    [is_suspicious |-> FALSE, severity |-> "medium",
     reason |-> [text |-> "Weight drop at zone - verify",
                 zone_name |-> IF zone # None THEN zone[1].name ELSE "zone"]]

\* process_reading: a drop inside an authorized zone, by the zone's type
InZoneClass(zone) ==
    IF zone # None /\ zone[1].zone_type = "destination"
      THEN [is_suspicious |-> FALSE, severity |-> "low",
            reason |-> [text |-> "Expected unloading at destination",
                        zone_name |-> zone[1].name]]
      ELSE [is_suspicious |-> FALSE, severity |-> "medium",
            reason |-> [text |-> "Weight drop at zone - verify",
                        zone_name |-> IF zone # None THEN zone[1].name
                                                     ELSE "zone"]]

\* as TheftSignature, whether or not the truck is moving
TheftSignature_IgnoresMoving(weight_drop, in_zone, is_moving) ==
    ~in_zone /\ weight_drop >= SUSPICIOUS_DROP_KG

\* as TheftSignature, with the critical threshold
TheftSignature_CriticalDrop(weight_drop, in_zone, is_moving) ==
    ~is_moving /\ ~in_zone /\ weight_drop >= CRITICAL_DROP_KG

\* process_reading: the extra check, a drop while stopped outside a zone
TheftSignature(weight_drop, in_zone, is_moving) ==
    ~is_moving /\ ~in_zone /\ weight_drop >= SUSPICIOUS_DROP_KG

\* process_reading: suspicious flag, severity and reason of a drop
WeightClass(weight_drop, in_zone, zone, is_moving) ==
    LET base == IF ~in_zone THEN OutsideZoneClass(weight_drop) ELSE InZoneClass(zone)
    IN  IF TheftSignature(weight_drop, in_zone, is_moving)
          THEN [is_suspicious |-> TRUE, severity |-> "critical",
                reason |-> [text |-> "THEFT ALERT: drop while STOPPED outside zone",
                            drop |-> weight_drop]]
          ELSE base

\* as IsSensorNoise, one kg tighter
IsSensorNoise_Tighter(weight_change) == Abs(weight_change) < SENSOR_NOISE_KG - 1

\* process_reading: the change is within sensor noise
IsSensorNoise(weight_change) == Abs(weight_change) < SENSOR_NOISE_KG

\* as NotADrop, taking only an unchanged weight for no drop
NotADrop_OnlyEqual(weight_change) == weight_change = 0

\* process_reading: the weight did not fall
NotADrop(weight_change) == weight_change >= 0

\* EnhancedWeightAnalyzer.process_reading
\* as WeightStatusLabel, a loss on a threshold already in the next label
WeightStatusLabel_Strict(weight_loss) ==
    IF weight_loss < ACCEPTABLE_LOSS_KG THEN "normal"
    ELSE IF weight_loss < SUSPICIOUS_DROP_KG THEN "warning"
    ELSE IF weight_loss < CRITICAL_DROP_KG THEN "alert"
    ELSE "critical"

\* the if/elif chain of get_weight_status
WeightStatusLabel(weight_loss) ==
    IF weight_loss <= ACCEPTABLE_LOSS_KG THEN "normal"
    ELSE IF weight_loss <= SUSPICIOUS_DROP_KG THEN "warning"
    ELSE IF weight_loss <= CRITICAL_DROP_KG THEN "alert"
    ELSE "critical"

\* the message that goes with a label; the f-strings carry the loss
WeightStatusMessage(status, weight_loss) ==
    IF status = "normal" THEN <<"Weight within acceptable range">>
    ELSE IF status = "warning" THEN <<"Minor weight loss", weight_loss>>
    ELSE IF status = "alert" THEN <<"Suspicious weight loss", weight_loss>>
    ELSE <<"CRITICAL weight loss", weight_loss>>

\* cargo_percent, the quotient kept as <<numerator, denominator>>; 100 when
\* there is no cargo
CargoPercent(cargo_remaining, actual_cargo) ==
    IF actual_cargo > 0 THEN <<cargo_remaining * 100, actual_cargo>>
    ELSE <<100, 1>>

get_weight_status(wa, truck_id, current_weight) ==
    IF truck_id \notin DOMAIN wa.weight_profiles
      THEN [wa |-> wa,
            ret |-> [status |-> "unknown", message |-> <<"Trip not registered">>]]
      ELSE
        LET profile == wa.weight_profiles[truck_id]
            expected_weight == profile.total_weight_kg
            actual_cargo == profile.actual_cargo_kg
            weight_loss == expected_weight - current_weight
            cargo_remaining == actual_cargo - weight_loss
            status == WeightStatusLabel(weight_loss)
        IN  [wa |-> wa,
             ret |-> [status |-> status,
                      message |-> WeightStatusMessage(status, weight_loss),
                      initial_weight |-> expected_weight,
                      current_weight |-> current_weight,
                      weight_loss |-> weight_loss,
                      cargo_remaining_kg |-> cargo_remaining,
                      cargo_remaining_percent |->
                          CargoPercent(cargo_remaining, actual_cargo),
                      packaging_weight |-> profile.packaging_weight_kg]]

\* as FirstReading, a truck without detected loss counting as new
FirstReading_UntilLoss(wa, truck_id) ==
    \/ truck_id \notin DOMAIN wa.previous_weights
    \/ Get(wa.total_detected_loss, truck_id, 0) = 0

\* the auto-registration test of process_reading
FirstReading(wa, truck_id) == truck_id \notin DOMAIN wa.previous_weights

\* as weight_process_reading, a change within the noise leaving the previous
\* weight where it was
weight_process_reading_NoiseKeepsBaseline(wa, reading) ==
    LET truck_id == reading.truck_id
        current_weight == reading.weight_kg
    IN  IF FirstReading(wa, truck_id)
          THEN [wa |-> register_trip(wa, truck_id, current_weight,
                                     DEFAULT_PACKAGING_KG, ""),
                ret |-> None]
          ELSE
            LET previous_weight == wa.previous_weights[truck_id]
                weight_change == current_weight - previous_weight
                updated == [wa EXCEPT !.previous_weights = Put(@, truck_id, current_weight)]
                weight_drop == Abs(weight_change)
                z == is_in_authorized_zone(reading.latitude, reading.longitude)
                c == WeightClass(weight_drop, z.in_zone, z.zone, reading.is_moving)
                alert == [truck_id |-> truck_id,
                          timestamp |-> reading.timestamp,
                          latitude |-> reading.latitude,
                          longitude |-> reading.longitude,
                          previous_weight_kg |-> previous_weight,
                          current_weight_kg |-> current_weight,
                          weight_drop_kg |-> weight_drop,
                          is_in_authorized_zone |-> z.in_zone,
                          zone_name |-> IF z.zone # None THEN Some(z.zone[1].name) ELSE None,
                          is_suspicious |-> c.is_suspicious,
                          severity |-> c.severity,
                          reason |-> c.reason]
            IN  IF IsSensorNoise(weight_change)
                  THEN [wa |-> wa, ret |-> None]
                ELSE IF NotADrop(weight_change)
                  THEN [wa |-> updated, ret |-> None]
                ELSE [wa |-> [updated EXCEPT
                                !.total_detected_loss =
                                    Put(@, truck_id, Get(@, truck_id, 0) + weight_drop),
                                !.weight_alerts = Append(@, alert)],
                      ret |-> Some(alert)]

weight_process_reading(wa, reading) ==
    LET truck_id == reading.truck_id
        current_weight == reading.weight_kg
    IN  IF FirstReading(wa, truck_id)
          THEN [wa |-> register_trip(wa, truck_id, current_weight,
                                     DEFAULT_PACKAGING_KG, ""),
                ret |-> None]
          ELSE
            LET previous_weight == wa.previous_weights[truck_id]
                weight_change == current_weight - previous_weight
                updated == [wa EXCEPT !.previous_weights = Put(@, truck_id, current_weight)]
                weight_drop == Abs(weight_change)
                z == is_in_authorized_zone(reading.latitude, reading.longitude)
                c == WeightClass(weight_drop, z.in_zone, z.zone, reading.is_moving)
                alert == [truck_id |-> truck_id,
                          timestamp |-> reading.timestamp,
                          latitude |-> reading.latitude,
                          longitude |-> reading.longitude,
                          previous_weight_kg |-> previous_weight,
                          current_weight_kg |-> current_weight,
                          weight_drop_kg |-> weight_drop,
                          is_in_authorized_zone |-> z.in_zone,
                          zone_name |-> IF z.zone # None THEN Some(z.zone[1].name) ELSE None,
                          is_suspicious |-> c.is_suspicious,
                          severity |-> c.severity,
                          reason |-> c.reason]
            IN  IF IsSensorNoise(weight_change)
                  THEN [wa |-> updated, ret |-> None]
                ELSE IF NotADrop(weight_change)
                  THEN [wa |-> updated, ret |-> None]
                ELSE [wa |-> [updated EXCEPT
                                !.total_detected_loss =
                                    Put(@, truck_id, Get(@, truck_id, 0) + weight_drop),
                                !.weight_alerts = Append(@, alert)],
                      ret |-> Some(alert)]

\* len([a for a in alerts if a.truck_id == truck_id and keep(a)])
RECURSIVE CountAlerts(_, _, _)
CountAlerts(alerts, truck_id, suspicious_only) ==
    IF alerts = <<>> THEN 0
    ELSE (IF /\ Head(alerts).truck_id = truck_id
             /\ (suspicious_only => Head(alerts).is_suspicious)
            THEN 1 ELSE 0)
         + CountAlerts(Tail(alerts), truck_id, suspicious_only)

get_trip_summary(wa, truck_id) ==
    IF truck_id \notin DOMAIN wa.weight_profiles
      THEN [wa |-> wa, ret |-> EmptyDict]
      ELSE
        LET profile == wa.weight_profiles[truck_id]
            current == Get(wa.previous_weights, truck_id, profile.total_weight_kg)
            total_loss == Get(wa.total_detected_loss, truck_id, 0)
        IN  [wa |-> wa,
             ret |-> [initial_total |-> profile.total_weight_kg,
                      packaging |-> profile.packaging_weight_kg,
                      initial_cargo |-> profile.actual_cargo_kg,
                      current_weight |-> current,
                      total_detected_loss |-> total_loss,
                      alerts_count |-> CountAlerts(wa.weight_alerts, truck_id, FALSE),
                      suspicious_alerts |->
                          CountAlerts(wa.weight_alerts, truck_id, TRUE)]]

\* the analyzers' fields after an operation
SetStops(st) ==
    /\ active_stops' = st.active_stops
    /\ completed_stops' = st.completed_stops

SetWeights(wa) ==
    /\ weight_profiles' = wa.weight_profiles
    /\ previous_weights' = wa.previous_weights
    /\ weight_alerts' = wa.weight_alerts
    /\ total_detected_loss' = wa.total_detected_loss

(***************************************************************************)
(* Positions used as inputs                                                *)
(***************************************************************************)
\* the "en route" waypoint (22.5, 86.8): outside every zone
OpenRoad == [latitude |-> 556, longitude |-> 822]
\* on the rim of the Kharagpur rest stop: distance = radius, inside
RestStopRim == [latitude |-> 385, longitude |-> 1364]
\* one grid step past the rim of the rest stop: outside every zone
PastRestStop == [latitude |-> 385, longitude |-> 1365]
\* the centre of the Howrah distribution center (the destination)
Destination == [latitude |-> 663, longitude |-> 2325]

(***************************************************************************)
(* Inputs of the engine operations                                         *)
(***************************************************************************)
\* a reading, in the fields the analyzers read
Reading(truck_id, timestamp, pos, is_moving, weight_kg) ==
    [truck_id |-> truck_id, timestamp |-> timestamp,
     latitude |-> pos.latitude, longitude |-> pos.longitude,
     is_moving |-> is_moving, weight_kg |-> weight_kg]

\* the completed StopEvent of a stop of `duration` minutes begun at `pos`
StopEventAt(truck_id, pos, duration) ==
    CompletedStopEvent(truck_id, StopInfo(Reading(truck_id, 0, pos, FALSE, 5000)),
                       duration, duration)

\* the ongoing StopEvent of a stop begun at `pos` `duration` minutes ago
OngoingEventAt(truck_id, pos, duration) ==
    OngoingStopEvent(truck_id, StopInfo(Reading(truck_id, 0, pos, FALSE, 5000)), duration)

StopEventInputs ==
    { StopEventAt("TS-JH-1001", OpenRoad, 5),          \* brief, not suspicious
      OngoingEventAt("TS-JH-1001", PastRestStop, 14),
      StopEventAt("TS-JH-1002", OpenRoad, 15),
      StopEventAt("TS-JH-1001", RestStopRim, 31) }     \* over the zone's 30

\* the WeightAlert of a drop from 5000 kg at `pos`
WeightAlertAt(truck_id, pos, is_moving, weight_drop) ==
    weight_process_reading(
        register_trip([weight_profiles |-> EmptyDict, previous_weights |-> EmptyDict,
                       weight_alerts |-> <<>>, total_detected_loss |-> EmptyDict],
                      truck_id, 5000, DEFAULT_PACKAGING_KG, ""),
        Reading(truck_id, 6, pos, is_moving, 5000 - weight_drop)).ret[1]

\* a WeightAlert a caller built itself: flagged, with a severity the analyzer
\* never flags
FlaggedWeightAlert(severity) ==
    [WeightAlertAt("TS-JH-1001", OpenRoad, TRUE, 30) EXCEPT
        !.is_suspicious = TRUE, !.severity = severity]

WeightAlertInputs ==
    { WeightAlertAt("TS-JH-1002", OpenRoad, FALSE, 500),    \* critical (stopped)
      WeightAlertAt("TS-JH-1001", OpenRoad, TRUE, 150),     \* high
      WeightAlertAt("TS-JH-1001", Destination, TRUE, 150),  \* low, not flagged
      FlaggedWeightAlert("medium") }

\* the weight alerts given to the engine next to stop events: the theft alert
\* and the unloading at the destination
TheftWeightAlertInputs ==
    { w \in WeightAlertInputs : w.severity \in {"critical", "low"} }

\* a stop event and a weight alert of the same truck, both flagged
CombinedInputs ==
    { <<s, w>> \in StopEventInputs \X WeightAlertInputs :
        /\ s.truck_id = w.truck_id
        /\ s.is_suspicious /\ ~s.is_authorized
        /\ w.is_suspicious /\ w.severity = "critical" }

AlertIds == { GenerateAlertId(n) : n \in 1..MaxAlerts }
Reasons == {"No response"}
Notes == {"false alarm"}
\* the levels get_alerts_by_level is asked for
QueryLevels == {WARNING, EMERGENCY}

(***************************************************************************)
(* The engine operations as actions                                        *)
(***************************************************************************)
Returns(r) ==
    /\ SetEngine(r.eng)
    /\ result' = r.ret
    /\ UNCHANGED <<stop_vars, weight_vars, driver_vars>>

ProcessStopEvent(event) ==
    /\ call' = [op |-> "process_stop_event", arg |-> event]
    /\ Returns(process_stop_event(Engine, event))

ProcessWeightAlert(weight_alert) ==
    /\ call' = [op |-> "process_weight_alert", arg |-> weight_alert]
    /\ Returns(process_weight_alert(Engine, weight_alert))

ProcessCombinedEvent(stop_event, weight_alert) ==
    /\ call' = [op |-> "process_combined_event",
                arg |-> [stop_event |-> stop_event, weight_alert |-> weight_alert]]
    /\ Returns(process_combined_event(Engine, stop_event, weight_alert))

EscalateAlert(alert_id, reason) ==
    /\ call' = [op |-> "escalate_alert",
                arg |-> [alert_id |-> alert_id, reason |-> reason]]
    /\ Returns(escalate_alert(Engine, alert_id, reason))

ResolveAlert(alert_id, notes) ==
    /\ call' = [op |-> "resolve_alert",
                arg |-> [alert_id |-> alert_id, notes |-> notes]]
    /\ Returns(resolve_alert(Engine, alert_id, notes))

GetActiveAlerts ==
    /\ call' = [op |-> "get_active_alerts"]
    /\ Returns(get_active_alerts(Engine))

GetAlertsByLevel(level) ==
    /\ call' = [op |-> "get_alerts_by_level", arg |-> level]
    /\ Returns(get_alerts_by_level(Engine, level))

GetAlertSummary ==
    /\ call' = [op |-> "get_alert_summary"]
    /\ Returns(get_alert_summary(Engine))

InitEngine ==
    /\ active_alerts = EmptyDict
    /\ alert_history = <<>>
    /\ alert_counter = 0
    /\ invoked = EmptyBag

InitAnalyzers ==
    /\ active_stops = EmptyDict
    /\ completed_stops = <<>>
    /\ weight_profiles = EmptyDict
    /\ previous_weights = EmptyDict
    /\ weight_alerts = <<>>
    /\ total_detected_loss = EmptyDict

Init ==
    /\ InitEngine
    /\ callbacks = Hooks
    /\ InitAnalyzers
    /\ call = [op |-> "__init__"]
    /\ result = None
    /\ scenario = None
    /\ index = 0

Next ==
    \/ \E event \in StopEventInputs :
          (event.is_suspicious => alert_counter < MaxAlerts) /\ ProcessStopEvent(event)
    \/ \E weight_alert \in TheftWeightAlertInputs :
          /\ weight_alert.is_suspicious => alert_counter < MaxAlerts
          /\ ProcessWeightAlert(weight_alert)
    \/ \E c \in CombinedInputs :
          alert_counter < MaxAlerts /\ ProcessCombinedEvent(c[1], c[2])
    \/ \E alert_id \in AlertIds, reason \in Reasons : EscalateAlert(alert_id, reason)
    \/ \E alert_id \in AlertIds, notes \in Notes : ResolveAlert(alert_id, notes)

Spec == Init /\ [][Next]_vars

(***************************************************************************)
(* The engine with its queries: alerts come from weight alerts, are        *)
(* escalated and resolved, and the read-only operations are asked between  *)
(***************************************************************************)
NextQueries ==
    \/ \E weight_alert \in WeightAlertInputs :
          /\ weight_alert.is_suspicious => alert_counter < MaxAlerts
          /\ ProcessWeightAlert(weight_alert)
    \/ \E alert_id \in AlertIds, reason \in Reasons : EscalateAlert(alert_id, reason)
    \/ \E alert_id \in AlertIds, notes \in Notes : ResolveAlert(alert_id, notes)
    \/ GetActiveAlerts
    \/ \E level \in QueryLevels : GetAlertsByLevel(level)
    \/ GetAlertSummary

SpecQueries == Init /\ [][NextQueries]_vars

\* the engine as constructed, or with the four hooks assigned after
\* construction
InitHistory ==
    /\ InitEngine
    /\ callbacks \in {{}, Hooks}
    /\ InitAnalyzers
    /\ call = [op |-> "__init__"]
    /\ result = None
    /\ scenario = None
    /\ index = 0

NextHistory ==
    \/ \E weight_alert \in WeightAlertInputs :
          /\ weight_alert.is_suspicious => alert_counter < MaxAlerts
          /\ ProcessWeightAlert(weight_alert)
    \/ \E alert_id \in AlertIds, reason \in Reasons : EscalateAlert(alert_id, reason)
    \/ \E alert_id \in AlertIds, notes \in Notes : ResolveAlert(alert_id, notes)

SpecHistory == InitHistory /\ [][NextHistory]_vars

(***************************************************************************)
(* escalation.py: the engine with callbacks that may raise                  *)
(***************************************************************************)
\* the hooks in the order in which _execute_level_actions calls them
HookOrder ==
    <<"on_sms_driver", "on_call_driver", "on_alert_control_center",
      "on_dispatch_security">>

\* the calls _execute_level_actions makes for a level, in order
HookCalls(level, cbs) ==
    SelectSeq(HookOrder, LAMBDA h : h \in LevelHooks(level, cbs))

\* the position of the first call that raises, 0 when none does
FirstRaise(calls, raising) ==
    IF \E i \in DOMAIN calls : calls[i] \in raising
      THEN CHOOSE i \in DOMAIN calls :
              /\ calls[i] \in raising
              /\ \A j \in 1..(i - 1) : calls[j] \notin raising
      ELSE 0

\* the hook calls made up to and including the one that raised
CallsUntilRaise(alert, calls, k, bag) ==
    bag (+) SetToBag({<<calls[i], alert.alert_id>> : i \in 1..k})

\* what the caller of a method gets when a callback raises
Raise(hook) == [raised |-> hook]

\* a process_* method whose callbacks of `raising` raise: `r` is the method's
\* outcome when none raises. The id is drawn and the Alert built before
\* _execute_level_actions runs; the exception leaves it before
\* self.active_alerts[alert.alert_id] = alert.
ProcessOrRaise(eng, r, raising) ==
    IF r.ret = None
      THEN r
      ELSE LET alert == r.ret[1]
               calls == HookCalls(alert.level, eng.callbacks)
               k == FirstRaise(calls, raising)
           IN  IF k = 0
                 THEN r
                 ELSE [eng |-> [eng EXCEPT
                                  !.alert_counter = @ + 1,
                                  !.invoked = CallsUntilRaise(alert, calls, k, @)],
                       ret |-> Raise(calls[k])]

\* escalate_alert whose callbacks of `raising` raise: level and description
\* are changed before _execute_level_actions runs, actions_taken and
\* escalation_history at its end
EscalateOrRaise(eng, alert_id, reason, raising) ==
    IF alert_id \notin DOMAIN eng.active_alerts
      THEN escalate_alert(eng, alert_id, reason)
    ELSE IF ~BelowEmergency(eng.active_alerts[alert_id])
      THEN escalate_alert(eng, alert_id, reason)
    ELSE LET raised == Raised(eng.active_alerts[alert_id], reason)
             calls == HookCalls(raised.level, eng.callbacks)
             k == FirstRaise(calls, raising)
         IN  IF k = 0
               THEN escalate_alert(eng, alert_id, reason)
               ELSE [eng |-> [eng EXCEPT
                                !.active_alerts = Put(@, alert_id, raised),
                                !.invoked = CallsUntilRaise(raised, calls, k, @)],
                     ret |-> Raise(calls[k])]

\* the callbacks that raise during a call
RaisingHooks == {{}, {"on_sms_driver"}, {"on_dispatch_security"}}

ProcessStopEventRaising(event, raising) ==
    /\ call' = [op |-> "process_stop_event", arg |-> event, raising |-> raising]
    /\ Returns(ProcessOrRaise(Engine, process_stop_event(Engine, event), raising))

ProcessWeightAlertRaising(weight_alert, raising) ==
    /\ call' = [op |-> "process_weight_alert", arg |-> weight_alert,
                raising |-> raising]
    /\ Returns(ProcessOrRaise(Engine, process_weight_alert(Engine, weight_alert),
                              raising))

ProcessCombinedEventRaising(stop_event, weight_alert, raising) ==
    /\ call' = [op |-> "process_combined_event",
                arg |-> [stop_event |-> stop_event, weight_alert |-> weight_alert],
                raising |-> raising]
    /\ Returns(ProcessOrRaise(Engine,
                              process_combined_event(Engine, stop_event, weight_alert),
                              raising))

EscalateAlertRaising(alert_id, reason, raising) ==
    /\ call' = [op |-> "escalate_alert",
                arg |-> [alert_id |-> alert_id, reason |-> reason],
                raising |-> raising]
    /\ Returns(EscalateOrRaise(Engine, alert_id, reason, raising))

\* an overlong stop at the rest stop (Watchlist) and the theft alert (Critical)
RaisingStopEvents ==
    { e \in StopEventInputs : e.is_suspicious /\ e.is_authorized }

RaisingWeightAlerts == { w \in WeightAlertInputs : w.severity = "critical" }

NextRaising ==
    \/ \E event \in RaisingStopEvents, raising \in RaisingHooks :
          /\ event.is_suspicious => alert_counter < MaxAlerts
          /\ ProcessStopEventRaising(event, raising)
    \/ \E weight_alert \in RaisingWeightAlerts, raising \in RaisingHooks :
          /\ weight_alert.is_suspicious => alert_counter < MaxAlerts
          /\ ProcessWeightAlertRaising(weight_alert, raising)
    \/ \E c \in CombinedInputs, raising \in RaisingHooks :
          alert_counter < MaxAlerts /\ ProcessCombinedEventRaising(c[1], c[2], raising)
    \/ \E alert_id \in AlertIds, reason \in Reasons, raising \in RaisingHooks :
          EscalateAlertRaising(alert_id, reason, raising)
    \/ \E alert_id \in AlertIds, notes \in Notes : ResolveAlert(alert_id, notes)

SpecRaising == Init /\ [][NextRaising]_vars

(***************************************************************************)
(* escalation.py: every method of the engine, fed by one truck              *)
(***************************************************************************)
FrameStopEvents == { e \in StopEventInputs : e.truck_id = "TS-JH-1002" }

FrameWeightAlerts == { w \in WeightAlertInputs : w.truck_id = "TS-JH-1002" }

NextFrame ==
    \/ \E event \in FrameStopEvents :
          (event.is_suspicious => alert_counter < MaxAlerts) /\ ProcessStopEvent(event)
    \/ \E weight_alert \in FrameWeightAlerts :
          /\ weight_alert.is_suspicious => alert_counter < MaxAlerts
          /\ ProcessWeightAlert(weight_alert)
    \/ \E c \in CombinedInputs :
          alert_counter < MaxAlerts /\ ProcessCombinedEvent(c[1], c[2])
    \/ \E alert_id \in AlertIds, reason \in Reasons : EscalateAlert(alert_id, reason)
    \/ \E alert_id \in AlertIds, notes \in Notes : ResolveAlert(alert_id, notes)
    \/ GetActiveAlerts
    \/ \E level \in QueryLevels : GetAlertsByLevel(level)
    \/ GetAlertSummary

SpecFrame == Init /\ [][NextFrame]_vars

(***************************************************************************)
(* simulator.py: generate_pilferage_scenario, and app.py: process_event    *)
(***************************************************************************)
\* readings generated after the pilferage stop
PostReadings == 2
\* index of the first reading of the pilferage stop
\* (int(pilferage_at_progress * total_readings))
FirstStopReading == 2

StopDurations == {2, 3, 9, 10, 15, 20}
StolenWeights == {30, 150, 500}
\* random.uniform(-2, 2), in whole kg
Noise == {-2, 0, 2}
\* The route decides the position of reading i (_interpolate_position):
\*   open_road       every reading outside every zone
\*   past_rest_stop  as open_road, but the 8th reading of the stop falls inside
\*                   the Kharagpur rest stop (the truck's position keeps
\*                   following the route while it is reported stopped)
\*   rest_stop       every reading from the second on inside the rest stop
\*   destination     every reading inside the destination zone
Routes == {"open_road", "past_rest_stop", "rest_stop", "destination"}

Scenarios ==
    [truck_id : {"TS-JH-1002"}, initial_weight_kg : {5000},
     pilferage_reading : {FirstStopReading},
     weight_stolen_kg : StolenWeights, stop_duration_min : StopDurations,
     route : Routes]

pilferage_end(sc) == sc.pilferage_reading + sc.stop_duration_min
total_readings(sc) == pilferage_end(sc) + PostReadings

\* position of reading i
Position(sc, i) ==
    CASE sc.route = "open_road" -> OpenRoad
      [] sc.route = "past_rest_stop" ->
            IF i = sc.pilferage_reading + 7 THEN RestStopRim ELSE OpenRoad
      [] sc.route = "rest_stop" -> IF i >= 1 THEN RestStopRim ELSE PastRestStop
      [] sc.route = "destination" -> Destination

InPilferage(sc, i) == sc.pilferage_reading <= i /\ i < pilferage_end(sc)

\* as current_weight, with the stolen weight gone from the first reading of
\* the stop
current_weight_AtStopStart(sc, i) ==
    IF i >= sc.pilferage_reading
      THEN sc.initial_weight_kg - sc.weight_stolen_kg
      ELSE sc.initial_weight_kg

\* self.current_weight when reading i is generated: the stolen weight leaves
\* with the sixth reading of the stop
current_weight(sc, i) ==
    IF i >= sc.pilferage_reading + 5 /\ sc.pilferage_reading + 5 < pilferage_end(sc)
      THEN sc.initial_weight_kg - sc.weight_stolen_kg
      ELSE sc.initial_weight_kg

\* is_moving of reading i
ScenarioMoving(sc, i) ==
    IF InPilferage(sc, i)
      THEN FALSE
      ELSE LET z == is_in_authorized_zone(Position(sc, i).latitude,
                                          Position(sc, i).longitude)
           IN  ~(z.in_zone /\ z.zone # None
                 /\ z.zone[1].zone_type \in {"rest_stop", "checkpoint"})

\* events[i] of generate_pilferage_scenario
ScenarioReading(sc, i, noise) ==
    Reading(sc.truck_id, i + 1, Position(sc, i), ScenarioMoving(sc, i),
            current_weight(sc, i) + noise)

\* app.py process_event
process_event(st, wa, eng, event) ==
    LET s == stop_process_reading(st, event)
        w == weight_process_reading(wa, event)
        e1 == IF s.ret # None /\ s.ret[1].is_suspicious
                THEN process_stop_event(eng, s.ret[1]).eng ELSE eng
        e2 == IF w.ret # None /\ w.ret[1].is_suspicious
                THEN process_weight_alert(e1, w.ret[1]).eng ELSE e1
    IN  [st |-> s.st, wa |-> w.wa, eng |-> e2,
         stop_result |-> s.ret, weight_result |-> w.ret]

\* app.py: process_event(st.session_state.events[index]); index += 1
ProcessEvent(event) ==
    LET r == process_event(Stops, Weights, Engine, event)
    IN  /\ call' = [op |-> "process_event", arg |-> event]
        /\ SetStops(r.st)
        /\ SetWeights(r.wa)
        /\ SetEngine(r.eng)
        /\ result' = [stop_result |-> r.stop_result, weight_result |-> r.weight_result]
        /\ index' = index + 1
        /\ UNCHANGED scenario

InitPipeline ==
    /\ InitEngine
    /\ callbacks = {}
    /\ InitAnalyzers
    /\ call = [op |-> "__init__"]
    /\ result = None
    /\ scenario \in Scenarios
    /\ index = 0

NextPipeline ==
    \E noise \in Noise :
        /\ index < total_readings(scenario)
        /\ ProcessEvent(ScenarioReading(scenario, index, noise))

SpecPipeline == InitPipeline /\ [][NextPipeline]_vars

(***************************************************************************)
(* weight_analyzer.py: the analyzer driven by readings of any kind          *)
(***************************************************************************)
\* WeightAlerts the analyzer records in a run
MaxWeightAlerts == 1

\* weights a reading reports, in kg: the differences between them are 1, 9,
\* 10, 40, 49, 50, 150, 190, 199 and 200
ReadingWeights == {5000, 4999, 4990, 4950, 4800}

ReadingPositions == {OpenRoad, RestStopRim, Destination}

WeightTrucks == {"TS-JH-1001"}

ReadingInputs ==
    { Reading(truck_id, 0, pos, is_moving, weight_kg) :
        truck_id \in WeightTrucks, pos \in ReadingPositions,
        is_moving \in BOOLEAN, weight_kg \in ReadingWeights }

RegisterTrip(truck_id, total_weight, packaging_weight, destination) ==
    LET wa == register_trip(Weights, truck_id, total_weight, packaging_weight,
                            destination)
    IN  /\ call' = [op |-> "register_trip",
                    arg |-> [truck_id |-> truck_id, total_weight |-> total_weight,
                             packaging_weight |-> packaging_weight,
                             destination |-> destination]]
        /\ SetWeights(wa)
        /\ result' = wa.weight_profiles[truck_id]
        /\ UNCHANGED <<engine_vars, stop_vars, driver_vars>>

WeightProcessReading(reading) ==
    LET r == weight_process_reading(Weights, reading)
    IN  /\ r.ret # None => Len(weight_alerts) < MaxWeightAlerts
        /\ call' = [op |-> "weight_process_reading", arg |-> reading]
        /\ SetWeights(r.wa)
        /\ result' = r.ret
        /\ UNCHANGED <<engine_vars, stop_vars, driver_vars>>

InitWeight ==
    /\ InitEngine
    /\ callbacks = {}
    /\ InitAnalyzers
    /\ call = [op |-> "__init__"]
    /\ result = None
    /\ scenario = None
    /\ index = 0

NextWeight ==
    \/ \E truck_id \in WeightTrucks :
          RegisterTrip(truck_id, 5000, DEFAULT_PACKAGING_KG, "Howrah")
    \/ \E reading \in ReadingInputs : WeightProcessReading(reading)

SpecWeight == InitWeight /\ [][NextWeight]_vars

(***************************************************************************)
(* weight_analyzer.py: the status query beside registrations and readings   *)
(***************************************************************************)
\* TS-JH-1002 is never registered here
StatusTrucks == WeightTrucks \cup {"TS-JH-1002"}

StatusWeights == {4980, 4979, 4950, 4949, 4800, 4799}

StatusReadingInputs ==
    { Reading(truck_id, 0, OpenRoad, FALSE, weight_kg) :
        truck_id \in WeightTrucks, weight_kg \in {5000, 4950, 4800} }

GetWeightStatus(truck_id, weight_kg) ==
    LET r == get_weight_status(Weights, truck_id, weight_kg)
    IN  /\ call' = [op |-> "get_weight_status",
                    arg |-> [truck_id |-> truck_id,
                             current_weight |-> weight_kg]]
        /\ SetWeights(r.wa)
        /\ result' = r.ret
        /\ UNCHANGED <<engine_vars, stop_vars, driver_vars>>

NextWeightStatus ==
    \/ \E truck_id \in WeightTrucks :
          RegisterTrip(truck_id, 5000, DEFAULT_PACKAGING_KG, "Howrah")
    \/ \E reading \in StatusReadingInputs : WeightProcessReading(reading)
    \/ \E truck_id \in StatusTrucks, weight_kg \in StatusWeights :
          GetWeightStatus(truck_id, weight_kg)

SpecWeightStatus == InitWeight /\ [][NextWeightStatus]_vars

(***************************************************************************)
(* app.py process_event: the weight analyzer feeding the engine             *)
(***************************************************************************)
FeedWeights == {5000, 4970, 4950, 4800}

FeedReadingInputs ==
    { Reading(truck_id, 0, pos, is_moving, weight_kg) :
        truck_id \in WeightTrucks, pos \in ReadingPositions,
        is_moving \in BOOLEAN, weight_kg \in FeedWeights }

\* weight_result = weight_analyzer.process_reading(event), and
\* escalation.process_weight_alert(weight_result) if there is one
FeedWeightReading(reading) ==
    LET w == weight_process_reading(Weights, reading)
        e == IF w.ret # None
               THEN process_weight_alert(Engine, w.ret[1])
               ELSE [eng |-> Engine, ret |-> None]
    IN  /\ w.ret # None => Len(weight_alerts) < MaxWeightAlerts
        /\ e.ret # None => alert_counter < MaxAlerts
        /\ call' = [op |-> "feed_weight_reading", arg |-> reading]
        /\ SetWeights(w.wa)
        /\ SetEngine(e.eng)
        /\ result' = [weight_result |-> w.ret, alert |-> e.ret]
        /\ UNCHANGED <<stop_vars, driver_vars>>

NextFeed == \E reading \in FeedReadingInputs : FeedWeightReading(reading)

SpecFeed == InitWeight /\ [][NextFeed]_vars

(***************************************************************************)
(* weight_analyzer.py: trips registered, read and summarised                *)
(***************************************************************************)
TripReadingInputs ==
    { Reading(truck_id, 0, OpenRoad, is_moving, weight_kg) :
        truck_id \in WeightTrucks, is_moving \in BOOLEAN,
        weight_kg \in {5000, 4995, 4950, 4800} }

GetTripSummary(truck_id) ==
    LET r == get_trip_summary(Weights, truck_id)
    IN  /\ call' = [op |-> "get_trip_summary", arg |-> [truck_id |-> truck_id]]
        /\ SetWeights(r.wa)
        /\ result' = r.ret
        /\ UNCHANGED <<engine_vars, stop_vars, driver_vars>>

NextTrips ==
    \/ \E truck_id \in WeightTrucks :
          RegisterTrip(truck_id, 5000, DEFAULT_PACKAGING_KG, "Howrah")
    \/ \E reading \in TripReadingInputs : WeightProcessReading(reading)
    \/ \E truck_id \in StatusTrucks : GetTripSummary(truck_id)

SpecTrips == InitWeight /\ [][NextTrips]_vars

(***************************************************************************)
(* stop_analyzer.py: the analyzer driven by readings of any kind            *)
(***************************************************************************)
\* StopEvents the analyzer keeps in completed_stops in a run
MaxCompletedStops == 1

\* timestamps a reading carries, in minutes: among the differences between
\* them are 2, 3, 9, 10, 20, 30 and 31
StopTimes == {0, 1, 3, 10, 20, 31}

StopPositions == {OpenRoad, RestStopRim}

StopTrucks == {"TS-JH-1001"}

StopReadingInputs ==
    { Reading(truck_id, timestamp, pos, is_moving, 5000) :
        truck_id \in StopTrucks, timestamp \in StopTimes,
        pos \in StopPositions, is_moving \in BOOLEAN }

StopProcessReading(reading) ==
    LET r == stop_process_reading(Stops, reading)
    IN  /\ Len(r.st.completed_stops) <= MaxCompletedStops
        /\ call' = [op |-> "stop_process_reading", arg |-> reading]
        /\ SetStops(r.st)
        /\ result' = r.ret
        /\ UNCHANGED <<engine_vars, weight_vars, driver_vars>>

NextStops ==
    \E reading \in StopReadingInputs : StopProcessReading(reading)

SpecStops == InitWeight /\ [][NextStops]_vars

(***************************************************************************)
(* Both analyzers with the readings of two trucks, in any order             *)
(***************************************************************************)
AnalyzerStopInputs ==
    { Reading(truck_id, timestamp, OpenRoad, is_moving, 5000) :
        truck_id \in Trucks, timestamp \in {0, 10}, is_moving \in BOOLEAN }

AnalyzerWeightInputs ==
    { Reading(truck_id, 0, OpenRoad, FALSE, weight_kg) :
        truck_id \in Trucks, weight_kg \in {5000, 4800} }

NextAnalyzers ==
    \/ \E reading \in AnalyzerStopInputs : StopProcessReading(reading)
    \/ \E reading \in AnalyzerWeightInputs : WeightProcessReading(reading)

SpecAnalyzers == InitWeight /\ [][NextAnalyzers]_vars

(***************************************************************************)
(* Properties                                                              *)
(***************************************************************************)
\* the action texts of the four tiers, as the SOP lists them
Tier1 == <<"Logged to system audit trail">>
Tier2 == <<"SMS sent to driver requesting confirmation">>
Tier3 == <<"Auto-call initiated to driver", "Control center notified">>
Tier4 == <<"Security team dispatched", "Nearest police station notified",
           "Cargo lock signal sent (if available)">>

CumulativeActions(level) ==
    CASE level = 0 -> <<>>
      [] level = 1 -> Tier1
      [] level = 2 -> Tier1 \o Tier2
      [] level = 3 -> Tier1 \o Tier2 \o Tier3
      [] level = 4 -> Tier1 \o Tier2 \o Tier3 \o Tier4

IsStrictPrefix(s, t) == Len(s) < Len(t) /\ SubSeq(t, 1, Len(s)) = s

\* every alert the engine holds, active or resolved
AllAlerts ==
    {active_alerts[id] : id \in DOMAIN active_alerts}
      \cup {alert_history[i] : i \in DOMAIN alert_history}

\* the level named by an escalation-history entry
LevelOfName(name) == CHOOSE l \in AlertLevels : LevelName(l) = name

\* the last operation was escalate_alert, on an alert that was active
EscalatedActive ==
    /\ call'.op = "escalate_alert"
    /\ call'.arg.alert_id \in DOMAIN active_alerts

\* C1: across every step of the engine (process_stop_event,
\* process_weight_alert, process_combined_event, escalate_alert,
\* resolve_alert) an alert that stays active keeps or raises its level, and
\* an alert that is resolved enters the history with the level it had.
C1_LevelNeverDecreases ==
    [][ /\ \A id \in DOMAIN active_alerts \cap DOMAIN active_alerts' :
              active_alerts'[id].level >= active_alerts[id].level
        /\ \A id \in DOMAIN active_alerts \ DOMAIN active_alerts' :
              /\ Len(alert_history') = Len(alert_history) + 1
              /\ alert_history'[Len(alert_history')].alert_id = id
              /\ alert_history'[Len(alert_history')].level = active_alerts[id].level
      ]_vars

\* an alert created at Watchlist has been escalated three times, to Emergency,
\* while a second alert exists
C1_Witness ==
    /\ call.op = "escalate_alert"
    /\ result # None
    /\ result[1].level = EMERGENCY
    /\ Len(result[1].escalation_history) = 4
    /\ alert_counter = 2

\* C2: escalate_alert on an active alert leaves it active at level
\* min(4, level + 1); when it was below Emergency the alert gets the cumulative
\* action list of the new level and its description gets the reason appended.
C2_EscalateStep ==
    [][ EscalatedActive =>
          LET id == call'.arg.alert_id
              a == active_alerts[id]
          IN  /\ id \in DOMAIN active_alerts'
              /\ active_alerts'[id].level = Min(EMERGENCY, a.level + 1)
              /\ a.level < EMERGENCY =>
                    /\ active_alerts'[id].actions_taken = CumulativeActions(a.level + 1)
                    /\ active_alerts'[id].description =
                          Append(a.description,
                                 [text |-> "ESCALATED", reason |-> call'.arg.reason])
      ]_vars

\* C2: an alert created at level L whose description carries r escalation
\* marks (one for each escalate_alert call made below Emergency) is at L + r,
\* which never passes Emergency.
C2_ClosedForm ==
    \A a \in AllAlerts :
        /\ a.level = LevelOfName(a.escalation_history[1].level)
                       + (Len(a.description) - 1)
        /\ a.level <= EMERGENCY

C2_EscalateRaisesByOne == C2_EscalateStep /\ []C2_ClosedForm

\* an alert created at Warning has been escalated once, to Critical
C2_Witness ==
    /\ call.op = "escalate_alert"
    /\ result # None
    /\ result[1].level = CRITICAL
    /\ result[1].escalation_history[1].level = "WARNING"
    /\ Len(result[1].description) = 2
    /\ call.arg.alert_id \in DOMAIN active_alerts

\* C3: escalate_alert on an active alert at Emergency changes nothing: not the
\* alert, the active set, the history list, nor the hook calls made.
C3_EscalateAtEmergencyNoOp ==
    [][ (EscalatedActive /\ active_alerts[call'.arg.alert_id].level = EMERGENCY) =>
          /\ active_alerts' = active_alerts
          /\ alert_history' = alert_history
          /\ invoked' = invoked
          /\ result' = Some(active_alerts[call'.arg.alert_id])
      ]_vars

\* escalate_alert was called on an alert that process_combined_event created at
\* Emergency; it still has the single history entry of its creation
C3_Witness ==
    /\ call.op = "escalate_alert"
    /\ result # None
    /\ result[1].level = EMERGENCY
    /\ result[1].source = "combined"
    /\ Len(result[1].escalation_history) = 1
    /\ callbacks = Hooks

\* C4: every alert carries exactly the cumulative action list of its level
\* (1, 2, 4 and 7 actions for Watchlist, Warning, Critical, Emergency), and the
\* list of each level is a strict prefix of the next level's.
C4_ActionsAreCumulative ==
    /\ \A a \in AllAlerts :
          /\ a.level \in WATCHLIST..EMERGENCY
          /\ a.actions_taken = CumulativeActions(a.level)
          /\ Len(a.actions_taken) = <<1, 2, 4, 7>>[a.level]
    /\ \A level \in WATCHLIST..CRITICAL :
          IsStrictPrefix(LevelActions(level), LevelActions(level + 1))

\* an alert created at Critical and one escalated up to Emergency are active
C4_Witness ==
    /\ \E id \in DOMAIN active_alerts :
          /\ active_alerts[id].level = EMERGENCY
          /\ Len(active_alerts[id].escalation_history) >= 2
          /\ Len(active_alerts[id].actions_taken) = 7
    /\ \E id \in DOMAIN active_alerts :
          /\ active_alerts[id].level = CRITICAL
          /\ Len(active_alerts[id].escalation_history) = 1

\* C5: process_combined_event adds exactly one alert to the active set, with
\* source 'combined', level Emergency, the seven actions of all four tiers
\* and one escalation-history entry, at Emergency; it returns that alert.
C5_CombinedIsEmergency ==
    [][ call'.op = "process_combined_event" =>
          \E id \in DOMAIN active_alerts' \ DOMAIN active_alerts :
              LET a == active_alerts'[id]
              IN  /\ DOMAIN active_alerts' = DOMAIN active_alerts \cup {id}
                  /\ \A other \in DOMAIN active_alerts :
                        active_alerts'[other] = active_alerts[other]
                  /\ a.source = "combined"
                  /\ a.level = EMERGENCY
                  /\ a.truck_id = call'.arg.stop_event.truck_id
                  /\ a.actions_taken = Tier1 \o Tier2 \o Tier3 \o Tier4
                  /\ a.escalation_history =
                        <<[level |-> "EMERGENCY",
                           actions |-> Tier1 \o Tier2 \o Tier3 \o Tier4]>>
                  /\ ~a.is_resolved
                  /\ result' = Some(a)
      ]_vars

\* process_combined_event has just returned an alert, beside an older one
C5_Witness ==
    /\ call.op = "process_combined_event"
    /\ result # None
    /\ result[1].alert_id \in DOMAIN active_alerts
    /\ active_alerts[result[1].alert_id].source = "combined"
    /\ Cardinality(DOMAIN active_alerts) = 2

\* the theft signature has been fed reading by reading: the truck was moving,
\* then reported 20 readings stopped, all outside every zone, lost 500 kg with
\* the sixth of them, and has moved on
TheftSignatureFed ==
    /\ scenario.stop_duration_min = 20
    /\ scenario.weight_stolen_kg = 500
    /\ \A i \in 0..(pilferage_end(scenario) - 1) :
          ~is_in_authorized_zone(Position(scenario, i).latitude,
                                 Position(scenario, i).longitude).in_zone
    /\ index > pilferage_end(scenario)

\* C6: once the theft signature (20 one-minute readings stopped outside every
\* zone, 500 kg lost 5 minutes into the stop) has gone through process_event,
\* the truck has an active alert at Emergency.
C6_TheftSignatureReachesEmergency ==
    TheftSignatureFed =>
        \E id \in DOMAIN active_alerts :
            /\ active_alerts[id].truck_id = scenario.truck_id
            /\ active_alerts[id].level = EMERGENCY

\* C7: process_stop_event on a suspicious StopEvent at an unauthorized
\* location with a duration of at least 10 minutes creates a Warning alert.
C7_UnauthorizedStopIsWarning ==
    ( /\ call.op = "process_stop_event"
      /\ call.arg.is_suspicious
      /\ ~call.arg.is_authorized
      /\ call.arg.duration_minutes >= SUSPICIOUS_UNAUTHORIZED_STOP_MIN )
    => /\ result # None
       /\ result[1].level = WARNING

\* C8: process_stop_event on a suspicious StopEvent at an authorized location
\* creates a Watchlist alert, whatever the duration.
C8_AuthorizedOverlongIsWatchlist ==
    ( /\ call.op = "process_stop_event"
      /\ call.arg.is_suspicious
      /\ call.arg.is_authorized )
    => /\ result # None
       /\ result[1].level = WATCHLIST
       /\ result[1].source = "stop_analyzer"
       /\ result[1].alert_id \in DOMAIN active_alerts
       /\ active_alerts[result[1].alert_id] = result[1]

\* a 31-minute stop at the rest stop (allowance 30) has produced an alert
C8_Witness ==
    /\ call.op = "process_stop_event"
    /\ call.arg.is_suspicious
    /\ call.arg.is_authorized
    /\ call.arg.duration_minutes >= 15
    /\ result # None

\* C9: process_weight_alert on a suspicious WeightAlert creates an alert at
\* Critical for severity 'critical', Warning for 'high', Watchlist otherwise.
C9_WeightSeverityToLevel ==
    ( /\ call.op = "process_weight_alert"
      /\ call.arg.is_suspicious )
    => /\ result # None
       /\ result[1].level =
             (CASE call.arg.severity = "critical" -> 3
                [] call.arg.severity = "high" -> 2
                [] OTHER -> 1)
       /\ result[1].source = "weight_analyzer"
       /\ result[1].alert_id \in DOMAIN active_alerts
       /\ active_alerts[result[1].alert_id] = result[1]

\* a 'high' alert has been processed after a flagged 'medium' one
C9_Witness ==
    /\ call.op = "process_weight_alert"
    /\ call.arg.is_suspicious
    /\ call.arg.severity = "high"
    /\ result # None
    /\ \E id \in DOMAIN active_alerts :
          /\ active_alerts[id].source = "weight_analyzer"
          /\ active_alerts[id].level = WATCHLIST

\* C10: process_stop_event and process_weight_alert given an input that is not
\* suspicious return None and leave the active set, the history list, the id
\* counter and the hook calls as they were.
C10_NonSuspiciousIsIgnored ==
    [][ ( /\ call'.op \in {"process_stop_event", "process_weight_alert"}
          /\ ~call'.arg.is_suspicious )
        => /\ result' = None
           /\ active_alerts' = active_alerts
           /\ alert_history' = alert_history
           /\ alert_counter' = alert_counter
           /\ invoked' = invoked
      ]_vars

\* a weight alert that is not suspicious was processed by an engine that holds
\* an active and a resolved alert
C10_Witness ==
    /\ call.op = "process_weight_alert"
    /\ ~call.arg.is_suspicious
    /\ result = None
    /\ active_alerts # EmptyDict
    /\ alert_history # <<>>

\* the last operation was resolve_alert, on an alert that was active
ResolvedActive ==
    /\ call'.op = "resolve_alert"
    /\ call'.arg.alert_id \in DOMAIN active_alerts

\* C11: resolve_alert on an active id takes exactly that alert out of the
\* active set (get_active_alerts no longer lists it), returns it marked
\* resolved with the notes, and appends it as the one new entry of
\* alert_history; the other active alerts and the earlier entries are the same.
C11_ResolveMovesToHistory ==
    [][ ResolvedActive =>
          LET id == call'.arg.alert_id
              done == [active_alerts[id] EXCEPT
                          !.is_resolved = TRUE,
                          !.resolution_notes = call'.arg.notes]
          IN  /\ DOMAIN active_alerts' = DOMAIN active_alerts \ {id}
              /\ \A o \in DOMAIN active_alerts' : active_alerts'[o] = active_alerts[o]
              /\ \A i \in DOMAIN get_active_alerts(Engine').ret :
                    get_active_alerts(Engine').ret[i].alert_id # id
              /\ Len(get_active_alerts(Engine').ret) = Len(get_active_alerts(Engine).ret) - 1
              /\ alert_history' = Append(alert_history, done)
              /\ result' = Some(done)
      ]_vars

\* the second of two alerts was resolved after the first: one alert stayed
\* active until then and the history already held an entry
C11_Witness ==
    /\ call.op = "resolve_alert"
    /\ result # None
    /\ result[1].is_resolved
    /\ result[1].resolution_notes = "false alarm"
    /\ Len(alert_history) = 2
    /\ alert_history[2] = result[1]

\* C12: escalate_alert and resolve_alert given an id that is not active return
\* None and leave the active alerts, the history, the counter and the hook
\* calls as they were.
C12_UnknownIdIsNotFound ==
    [][ ( /\ call'.op \in {"escalate_alert", "resolve_alert"}
          /\ call'.arg.alert_id \notin DOMAIN active_alerts )
        => /\ result' = None
           /\ active_alerts' = active_alerts
           /\ alert_history' = alert_history
           /\ alert_counter' = alert_counter
           /\ invoked' = invoked
      ]_vars

\* resolve_alert was given an id that was never issued while an alert is active
\* and another is in the history
C12_Witness ==
    /\ call.op = "resolve_alert"
    /\ result = None
    /\ call.arg.alert_id = GenerateAlertId(2)
    /\ alert_counter = 1
    /\ alert_history # <<>>

\* C13: an alert in alert_history stays there as it is: no step changes the
\* entry or puts its id back in the active set, escalate_alert and
\* resolve_alert on its id return None, and an alert created later has a
\* different id.
C13_ResolvedIsFinal ==
    [][ \A i \in DOMAIN alert_history :
          /\ i \in DOMAIN alert_history'
          /\ alert_history'[i] = alert_history[i]
          /\ alert_history[i].alert_id \notin DOMAIN active_alerts'
          /\ ( /\ call'.op \in {"escalate_alert", "resolve_alert"}
               /\ call'.arg.alert_id = alert_history[i].alert_id )
             => result' = None
          /\ ( /\ call'.op \in {"process_stop_event", "process_weight_alert",
                                "process_combined_event"}
               /\ result' # None )
             => result'[1].alert_id # alert_history[i].alert_id
      ]_vars

\* escalate_alert was tried on the id of a resolved alert after a second alert
\* had been created
C13_Witness ==
    /\ call.op = "escalate_alert"
    /\ result = None
    /\ alert_history # <<>>
    /\ call.arg.alert_id = alert_history[1].alert_id
    /\ alert_counter = 2
    /\ active_alerts # EmptyDict

\* the read-only operations of the engine
Queries == {"get_active_alerts", "get_alerts_by_level", "get_alert_summary"}

\* what the query recorded in `c` returns when asked of the engine `eng`
QueryResult(eng, c) ==
    CASE c.op = "get_active_alerts" -> get_active_alerts(eng).ret
      [] c.op = "get_alerts_by_level" -> get_alerts_by_level(eng, c.arg).ret
      [] c.op = "get_alert_summary" -> get_alert_summary(eng).ret

\* C14: get_active_alerts, get_alerts_by_level and get_alert_summary leave every
\* field of the engine as it was, and the same query asked again straight
\* after returns the same result.
C14_QueriesAreReadOnly ==
    [][ call'.op \in Queries =>
          /\ active_alerts' = active_alerts
          /\ alert_history' = alert_history
          /\ alert_counter' = alert_counter
          /\ callbacks' = callbacks
          /\ invoked' = invoked
          /\ result' = QueryResult(Engine, call')
          /\ QueryResult(Engine', call') = result'
          /\ call = call' => result' = result
      ]_vars

\* get_alerts_by_level(EMERGENCY) returned one of two active alerts
C14_Witness ==
    /\ call.op = "get_alerts_by_level"
    /\ call.arg = EMERGENCY
    /\ Len(result) = 1
    /\ Cardinality(DOMAIN active_alerts) = 2

\* the summary of the engine as it stands
Summary == get_alert_summary(Engine).ret

C15_Counts ==
    /\ Summary.total_active = Cardinality(DOMAIN active_alerts)
    /\ Summary.total_active =
          Summary.by_level.normal + Summary.by_level.watchlist
            + Summary.by_level.warning + Summary.by_level.critical
            + Summary.by_level.emergency
    /\ Summary.total_resolved = Len(alert_history)
    /\ call.op = "get_alert_summary" => result = Summary

C15_ResolvedStep ==
    [][ Summary'.total_resolved =
          Summary.total_resolved
            + (IF call'.op = "resolve_alert" /\ result' # None THEN 1 ELSE 0)
      ]_vars

\* C15: in every reachable state get_alert_summary reports total_active = the
\* number of active alerts = the sum of the five per-level counts, and
\* total_resolved starts at 0 and grows by one with each resolve_alert call
\* that returns an alert, and with nothing else.
C15_SummaryCounts ==
    /\ Summary.total_resolved = 0
    /\ []C15_Counts
    /\ C15_ResolvedStep

\* get_alert_summary reported one alert active, at Critical, and one resolved
C15_Witness ==
    /\ call.op = "get_alert_summary"
    /\ result.total_active = 1
    /\ result.by_level.critical = 1
    /\ result.total_resolved = 1

\* the step is a process_reading of the weight analyzer for a truck that has a
\* stored previous weight
WeightReadStep ==
    /\ call'.op = "weight_process_reading"
    /\ call'.arg.truck_id \in DOMAIN previous_weights

\* the reading's weight minus the stored previous weight
Change == call'.arg.weight_kg - previous_weights[call'.arg.truck_id]

\* the zone lookup of the reading's location
ReadingZone == is_in_authorized_zone(call'.arg.latitude, call'.arg.longitude)

\* the step returned a WeightAlert for the drop of the reading
AlertOfDrop ==
    /\ result' # None
    /\ result'[1].truck_id = call'.arg.truck_id
    /\ result'[1].weight_drop_kg = -Change
    /\ weight_alerts' = Append(weight_alerts, result'[1])

C17_IncreaseIsIgnored ==
    [][ (WeightReadStep /\ Change >= 0)
        => /\ result' = None
           /\ weight_alerts' = weight_alerts
           /\ total_detected_loss' = total_detected_loss
      ]_vars

\* after a drop to 4800 kg was recorded the weight is back at 5000 kg: it rose
\* by 200 kg, of which one step at least was of 10 kg or more
C17_Witness ==
    /\ call.op = "weight_process_reading"
    /\ call.arg.weight_kg = 5000
    /\ result = None
    /\ Len(weight_alerts) = 1
    /\ weight_alerts[1].current_weight_kg = 4800
    /\ previous_weights[call.arg.truck_id] = 5000

\* C18: a drop of 10 kg or more on a reading outside every authorized zone
\* with the truck moving returns a WeightAlert that is critical and suspicious
\* from 200 kg, high and suspicious from 50 kg up to 200 kg, and medium and
\* not suspicious below 50 kg.
C18_MovingOutsideZoneBySize ==
    [][ (WeightReadStep /\ Change <= -10 /\ ~ReadingZone.in_zone
            /\ call'.arg.is_moving)
        => /\ AlertOfDrop
           /\ ~result'[1].is_in_authorized_zone
           /\ -Change >= 200 =>
                 result'[1].severity = "critical" /\ result'[1].is_suspicious
           /\ (-Change >= 50 /\ -Change < 200) =>
                 result'[1].severity = "high" /\ result'[1].is_suspicious
           /\ -Change < 50 =>
                 result'[1].severity = "medium" /\ ~result'[1].is_suspicious
      ]_vars

\* a moving truck on the open road lost 199 kg: high, suspicious
C18_Witness ==
    /\ call.op = "weight_process_reading"
    /\ call.arg.is_moving
    /\ ~is_in_authorized_zone(call.arg.latitude, call.arg.longitude).in_zone
    /\ result # None
    /\ result[1].weight_drop_kg = 199
    /\ result[1].severity = "high"
    /\ result[1].is_suspicious

\* C19: a drop of 50 kg or more on a reading outside every authorized zone
\* with the truck not moving returns a WeightAlert that is critical and
\* suspicious, below 200 kg too.
C19_StoppedOutsideZoneIsCritical ==
    [][ (WeightReadStep /\ Change <= -50 /\ ~ReadingZone.in_zone
            /\ ~call'.arg.is_moving)
        => /\ AlertOfDrop
           /\ result'[1].severity = "critical"
           /\ result'[1].is_suspicious
      ]_vars

\* a stopped truck on the open road lost exactly 50 kg: critical, suspicious
C19_Witness ==
    /\ call.op = "weight_process_reading"
    /\ ~call.arg.is_moving
    /\ ~is_in_authorized_zone(call.arg.latitude, call.arg.longitude).in_zone
    /\ result # None
    /\ result[1].weight_drop_kg = 50
    /\ result[1].severity = "critical"
    /\ result[1].is_suspicious

\* C20: a drop of 10 kg or more on a reading inside an authorized zone returns
\* a WeightAlert that is not suspicious, moving or not and whatever the size:
\* low in a destination zone, medium in a zone of another type; the engine
\* given that alert returns None and stays as it is.
C20_InsideZoneNeverSuspicious ==
    [][ (WeightReadStep /\ Change <= -10 /\ ReadingZone.in_zone)
        => /\ AlertOfDrop
           /\ result'[1].is_in_authorized_zone
           /\ ~result'[1].is_suspicious
           /\ result'[1].severity =
                 IF ReadingZone.zone[1].zone_type = "destination"
                   THEN "low" ELSE "medium"
           /\ process_weight_alert(Engine', result'[1]) =
                 [eng |-> Engine', ret |-> None]
      ]_vars

\* a moving truck lost 150 kg at the destination: low, not suspicious
C20_Witness ==
    /\ call.op = "weight_process_reading"
    /\ call.arg.is_moving
    /\ call.arg.latitude = Destination.latitude
    /\ call.arg.longitude = Destination.longitude
    /\ result # None
    /\ result[1].weight_drop_kg = 150
    /\ result[1].severity = "low"
    /\ ~result[1].is_suspicious

\* the step is a process_reading of the stop analyzer for a truck that has a
\* stop in progress
StopTracked ==
    /\ call'.op = "stop_process_reading"
    /\ call'.arg.truck_id \in DOMAIN active_stops

\* the record of that stop, and the time since it began
StopRecord == active_stops[call'.arg.truck_id]
Elapsed == call'.arg.timestamp - StopRecord.start_time

\* the zone lookup of the place where the stop began
StopZone == is_in_authorized_zone(StopRecord.latitude, StopRecord.longitude)

\* the step returned a completed StopEvent of the stop and stored it
CompletedEventOfStop ==
    /\ result' # None
    /\ result'[1].truck_id = call'.arg.truck_id
    /\ result'[1].start_time = StopRecord.start_time
    /\ result'[1].end_time = Some(call'.arg.timestamp)
    /\ result'[1].duration_minutes = Elapsed
    /\ completed_stops' = Append(completed_stops, result'[1])
    /\ call'.arg.truck_id \notin DOMAIN active_stops'

C23_AuthorizedStopByZoneMax ==
    [][ (StopTracked /\ StopZone.in_zone)
        => /\ (call'.arg.is_moving /\ Elapsed >= 3) =>
                 /\ CompletedEventOfStop
                 /\ result'[1].is_authorized
                 /\ result'[1].is_suspicious <=>
                       Elapsed > StopZone.zone[1].max_stop_duration_min
                 /\ ~result'[1].is_suspicious =>
                       process_stop_event(Engine', result'[1]) =
                          [eng |-> Engine', ret |-> None]
           /\ ~call'.arg.is_moving => result' = None
      ]_vars

\* a stop at the rest stop ended after 20 minutes: authorized, not suspicious
C23_Witness ==
    /\ call.op = "stop_process_reading"
    /\ call.arg.is_moving
    /\ result # None
    /\ result[1].duration_minutes = 20
    /\ result[1].is_authorized
    /\ result[1].zone_name = Some("Kharagpur Rest Stop")
    /\ ~result[1].is_suspicious

C27_StopRecordFollowsReadings ==
    [][ call'.op = "stop_process_reading" =>
          LET t == call'.arg.truck_id
          IN  /\ t \in DOMAIN active_stops' <=> ~call'.arg.is_moving
              /\ \A o \in DOMAIN active_stops' : o \in StopTrucks
              /\ (~call'.arg.is_moving /\ t \notin DOMAIN active_stops) =>
                    /\ active_stops'[t].start_time = call'.arg.timestamp
                    /\ active_stops'[t].latitude = call'.arg.latitude
                    /\ active_stops'[t].longitude = call'.arg.longitude
              /\ (~call'.arg.is_moving /\ t \in DOMAIN active_stops) =>
                    active_stops'[t] = active_stops[t]
      ]_vars

\* the not-moving reading of minute 20 found the stop begun at minute 1, and
\* the record still carries minute 1
C27_Witness ==
    /\ call.op = "stop_process_reading"
    /\ ~call.arg.is_moving
    /\ call.arg.timestamp = 20
    /\ call.arg.truck_id \in DOMAIN active_stops
    /\ active_stops[call.arg.truck_id].start_time = 1

\* active alerts of a truck that came from the stop analyzer
StopAlertsOf(truck_id) ==
    { id \in DOMAIN active_alerts :
        /\ active_alerts[id].truck_id = truck_id
        /\ active_alerts[id].source = "stop_analyzer" }

\* C25: in a run of the pipeline over one continuous stop on the open road,
\* where every StopEvent the stop analyzer returns goes to process_stop_event,
\* the truck has at most one active alert from the stop analyzer.
C25_OneAlertPerStop ==
    (scenario # None /\ scenario.route = "open_road")
    => Cardinality(StopAlertsOf(scenario.truck_id)) <= 1

\* the theft scenario of the demo: 20 minutes on the open road, 500 kg gone
TheftScenario ==
    /\ scenario # None
    /\ scenario.route = "open_road"
    /\ scenario.stop_duration_min = 20
    /\ scenario.weight_stolen_kg = 500

\* minutes of the stop that have passed at the reading processed last
IntoStop == index - 1 - scenario.pilferage_reading

Entry(d, truck_id) == IF truck_id \in DOMAIN d THEN Some(d[truck_id]) ELSE None

\* C28: process_reading of the stop analyzer or of the weight analyzer for one
\* truck leaves every other truck's stop record, previous weight, weight
\* profile and cumulative detected loss as they were, and so what either
\* analyzer returns for a reading of another truck is the same after the step
\* as before it.
C28_OtherTrucksUntouched ==
    [][ call'.op \in {"stop_process_reading", "weight_process_reading"} =>
          \A b \in Trucks \ {call'.arg.truck_id} :
              /\ Entry(active_stops', b) = Entry(active_stops, b)
              /\ Entry(previous_weights', b) = Entry(previous_weights, b)
              /\ Entry(weight_profiles', b) = Entry(weight_profiles, b)
              /\ Entry(total_detected_loss', b) = Entry(total_detected_loss, b)
              /\ \A r \in AnalyzerStopInputs :
                    r.truck_id = b =>
                       stop_process_reading(Stops', r).ret =
                          stop_process_reading(Stops, r).ret
              /\ \A r \in AnalyzerWeightInputs :
                    r.truck_id = b =>
                       weight_process_reading(Weights', r).ret =
                          weight_process_reading(Weights, r).ret
      ]_vars

\* the first reading of TS-JH-1002 reached the weight analyzer while
\* TS-JH-1001 has a stop in progress and a detected loss of 200 kg
C28_Witness ==
    /\ call.op = "weight_process_reading"
    /\ call.arg.truck_id = "TS-JH-1002"
    /\ result = None
    /\ "TS-JH-1002" \in DOMAIN weight_profiles
    /\ "TS-JH-1001" \in DOMAIN active_stops
    /\ "TS-JH-1001" \in DOMAIN total_detected_loss
    /\ total_detected_loss["TS-JH-1001"] = 200

\* the analyzer without what process_reading has gathered: no alerts, no
\* detected loss, every previous weight back at the registered total
WithoutReadings(wa) ==
    [wa EXCEPT
        !.weight_alerts = <<>>,
        !.total_detected_loss = [t \in DOMAIN @ |-> 0],
        !.previous_weights =
            [t \in DOMAIN @ |-> IF t \in DOMAIN wa.weight_profiles
                                  THEN wa.weight_profiles[t].total_weight_kg
                                  ELSE @[t]]]

\* C29: get_weight_status of a registered truck reports loss = registered total
\* weight - current weight and labels it normal up to 20 kg, warning above 20 up
\* to 50, alert above 50 up to 200, critical above 200; of an unregistered truck
\* it reports 'unknown'; it changes nothing in the analyzer, and it answers the
\* same whatever alerts and losses the readings have left behind.
C29_WeightStatus ==
    [][ call'.op = "get_weight_status" =>
          LET t == call'.arg.truck_id
              loss == weight_profiles[t].total_weight_kg - call'.arg.current_weight
          IN  /\ Weights' = Weights
              /\ Stops' = Stops
              /\ Engine' = Engine
              /\ t \notin DOMAIN weight_profiles => result'.status = "unknown"
              /\ t \in DOMAIN weight_profiles =>
                    /\ result'.weight_loss = loss
                    /\ result'.status = "normal" <=> loss <= 20
                    /\ result'.status = "warning" <=> (20 < loss /\ loss <= 50)
                    /\ result'.status = "alert" <=> (50 < loss /\ loss <= 200)
                    /\ result'.status = "critical" <=> loss > 200
              /\ result' = get_weight_status(WithoutReadings(Weights), t,
                                             call'.arg.current_weight).ret
      ]_vars

\* the status of a truck registered at 5000 kg was asked at 4800 kg, on the
\* alert/critical threshold, after a reading had raised an alert
C29_Witness ==
    /\ call.op = "get_weight_status"
    /\ call.arg.truck_id = "TS-JH-1001"
    /\ call.arg.current_weight = 4800
    /\ "TS-JH-1001" \in DOMAIN weight_profiles
    /\ weight_profiles["TS-JH-1001"].total_weight_kg = 5000
    /\ result.status = "alert"
    /\ Len(weight_alerts) = 1

\* the alert with an id, active or resolved
AlertOf(alert_id) == CHOOSE a \in AllAlerts : a.alert_id = alert_id

IsPrefix(s, t) == Len(s) <= Len(t) /\ SubSeq(t, 1, Len(s)) = s

\* the step is an escalate_alert call that raises the level of this alert
RaisesLevel(alert_id) ==
    /\ call'.op = "escalate_alert"
    /\ call'.arg.alert_id = alert_id
    /\ active_alerts[alert_id].level < EMERGENCY

C30_HistoryShape ==
    \A a \in AllAlerts :
        LET h == a.escalation_history
        IN  /\ Len(h) >= 1
            /\ \A i \in 1..(Len(h) - 1) :
                  LevelOfName(h[i].level) < LevelOfName(h[i + 1].level)
            /\ LevelOfName(h[Len(h)].level) = a.level

C30_HistoryStep ==
    /\ \A id \in DOMAIN active_alerts :
          LET before == active_alerts[id].escalation_history
              after == AlertOf(id)'.escalation_history
          IN  /\ IsPrefix(before, after)
              /\ Len(after) = Len(before) + (IF RaisesLevel(id) THEN 1 ELSE 0)
    /\ \A id \in DOMAIN active_alerts' \ DOMAIN active_alerts :
          Len(active_alerts'[id].escalation_history) = 1
    /\ \A i \in DOMAIN alert_history :
          alert_history'[i].escalation_history = alert_history[i].escalation_history

\* C30: an alert's escalation_history has one entry when the alert is created
\* and gets one more with each escalate_alert call that raises its level, and
\* with no other call; entries once written stay as they are and where they
\* are; the levels recorded are strictly increasing and the last one is the
\* alert's level; all this with the four callbacks registered or with none.
C30_HistoryIsAppendOnly == []C30_HistoryShape /\ [][C30_HistoryStep]_vars

\* with no callback registered, an alert was escalated twice and has reached
\* Emergency with three history entries
C30_Witness ==
    /\ callbacks = {}
    /\ call.op = "escalate_alert"
    /\ result # None
    /\ result[1].level = EMERGENCY
    /\ Len(result[1].escalation_history) = 3
    /\ result[1].alert_id \in DOMAIN active_alerts

\* the ids of the alerts in alert_history
HistoryIds == {alert_history[i].alert_id : i \in DOMAIN alert_history}

\* C31: every alert ever created is either in active_alerts, under its own id
\* and with is_resolved false, or in alert_history with is_resolved true, never
\* in both; no two alerts share an id; and the alerts created, counted by
\* alert_counter and identified by the ids drawn so far, are exactly the
\* active ones together with the resolved ones.
C31_ActiveOrHistory ==
    /\ \A id \in DOMAIN active_alerts :
          /\ active_alerts[id].alert_id = id
          /\ ~active_alerts[id].is_resolved
    /\ \A i \in DOMAIN alert_history : alert_history[i].is_resolved
    /\ HistoryIds \cap DOMAIN active_alerts = {}
    /\ \A i, j \in DOMAIN alert_history :
          alert_history[i].alert_id = alert_history[j].alert_id => i = j
    /\ alert_counter = Cardinality(DOMAIN active_alerts) + Len(alert_history)
    /\ HistoryIds \cup DOMAIN active_alerts =
          {GenerateAlertId(n) : n \in 1..alert_counter}

\* two alerts were created and the first one was resolved: one is active, one
\* is in the history
C31_Witness ==
    /\ call.op = "resolve_alert"
    /\ result # None
    /\ alert_counter = 2
    /\ Len(alert_history) = 1
    /\ alert_history[1].alert_id = GenerateAlertId(1)
    /\ DOMAIN active_alerts = {GenerateAlertId(2)}

C32_Registered == DOMAIN previous_weights = DOMAIN weight_profiles

C32_ReadingStep ==
    call'.op = "weight_process_reading" =>
        LET t == call'.arg.truck_id
            w == call'.arg.weight_kg
        IN  IF t \notin DOMAIN weight_profiles
              THEN /\ weight_profiles' =
                         Put(weight_profiles, t,
                             [truck_id |-> t, total_weight_kg |-> w,
                              packaging_weight_kg |-> 50,
                              actual_cargo_kg |-> w - 50, destination |-> ""])
                   /\ total_detected_loss'[t] = 0
                   /\ previous_weights'[t] = w
                   /\ result' = None
                   /\ weight_alerts' = weight_alerts
              ELSE weight_profiles' = weight_profiles

\* C32: the first reading the weight analyzer's process_reading sees for a
\* truck that is not registered gives the truck a profile with the reading's
\* weight as total weight and 50 kg of packaging, a detected loss of 0, and no
\* alert; a truck has a profile exactly when it has a previous weight, and a
\* reading for a truck that has a profile leaves every profile as it is.
C32_FirstReadingRegisters == []C32_Registered /\ [][C32_ReadingStep]_vars

\* a truck registered by its first reading at 4950 kg has lost 150 kg by a
\* later reading, and its profile still says 4950 kg
C32_Witness ==
    /\ call.op = "weight_process_reading"
    /\ call.arg.weight_kg = 4800
    /\ result # None
    /\ result[1].weight_drop_kg = 150
    /\ weight_profiles[call.arg.truck_id].total_weight_kg = 4950
    /\ weight_profiles[call.arg.truck_id].packaging_weight_kg = 50

\* the methods of the engine; every step of the engine is a call of one
EngineMethods ==
    {"process_stop_event", "process_weight_alert", "process_combined_event",
     "escalate_alert", "resolve_alert"} \cup Queries

\* C33: the level, the actions and the escalation history of an alert that
\* exists change in no step but an escalate_alert call on its id: not when
\* process_stop_event, process_weight_alert or process_combined_event make
\* another alert, however much later its timestamp, not in resolve_alert, not
\* in a query; and nothing but a call of these methods changes the engine.
C33_LevelChangesOnlyByEscalate ==
    [][ /\ call'.op \in EngineMethods
        /\ \A id \in DOMAIN active_alerts :
              ~(call'.op = "escalate_alert" /\ call'.arg.alert_id = id) =>
                  LET a == active_alerts[id]
                      b == AlertOf(id)'
                  IN  /\ b.level = a.level
                      /\ b.actions_taken = a.actions_taken
                      /\ b.escalation_history = a.escalation_history
      ]_vars

\* a weight alert stamped 6 minutes after a Warning stop alert made a second
\* alert, and the first is still at Warning
C33_Witness ==
    /\ call.op = "process_weight_alert"
    /\ result # None
    /\ result[1].alert_id = GenerateAlertId(2)
    /\ GenerateAlertId(1) \in DOMAIN active_alerts
    /\ active_alerts[GenerateAlertId(1)].level = WARNING
    /\ result[1].timestamp - active_alerts[GenerateAlertId(1)].timestamp
          >= L2_TIMEOUT_MIN

\* C34: after process_reading of the weight analyzer for a truck the stored
\* previous weight of the truck is the weight of that reading, alert or no
\* alert; so a drop of less than 10 kg from the previous reading brings no
\* alert and adds nothing to the detected loss, whatever the truck has lost
\* since its registration.
C34_PreviousWeightFollowsReading ==
    [][ call'.op = "weight_process_reading" =>
          LET t == call'.arg.truck_id
              w == call'.arg.weight_kg
          IN  /\ t \in DOMAIN previous_weights'
              /\ previous_weights'[t] = w
              /\ ( /\ t \in DOMAIN previous_weights
                   /\ previous_weights[t] - w > 0
                   /\ previous_weights[t] - w < 10 )
                 => /\ result' = None
                    /\ weight_alerts' = weight_alerts
                    /\ total_detected_loss' = total_detected_loss
      ]_vars

\* a truck registered at 5000 kg is down to 4990 kg by drops of less than
\* 10 kg each: no alert, no detected loss
C34_Witness ==
    /\ call.op = "weight_process_reading"
    /\ call.arg.weight_kg = 4990
    /\ result = None
    /\ weight_profiles[call.arg.truck_id].total_weight_kg = 5000
    /\ previous_weights[call.arg.truck_id] = 4990
    /\ total_detected_loss[call.arg.truck_id] = 0
    /\ weight_alerts = <<>>

C35_FeedStep ==
    (call'.op = "feed_weight_reading" /\ result'.weight_result # None) =>
        LET a == result'.weight_result[1]
            z == is_in_authorized_zone(call'.arg.latitude, call'.arg.longitude)
        IN  /\ a.is_suspicious <=> (~z.in_zone /\ a.weight_drop_kg >= 50)
            /\ a.is_suspicious => a.severity \in {"high", "critical"}
            /\ (a.is_suspicious /\ a.severity = "high") => call'.arg.is_moving
            /\ result'.alert # None <=> a.is_suspicious
            /\ result'.alert # None => result'.alert[1].level \in {WARNING, CRITICAL}

C35_NoWatchlist ==
    /\ \A i \in DOMAIN weight_alerts :
          weight_alerts[i].is_suspicious =>
              weight_alerts[i].severity \in {"high", "critical"}
    /\ \A a \in AllAlerts : a.source = "weight_analyzer" => a.level # WATCHLIST

\* C35: a WeightAlert from the weight analyzer is flagged suspicious exactly
\* when the reading lies outside every authorized zone and the drop is 50 kg or
\* more; a flagged one has severity high or critical, high only for a moving
\* truck; so process_weight_alert, given what the analyzer emits, makes
\* Warning and Critical alerts and never a Watchlist one.
C35_AnalyzerNeverFeedsWatchlist == []C35_NoWatchlist /\ [][C35_FeedStep]_vars

\* a moving truck lost 50 kg on the open road: a 'high' WeightAlert, and a
\* Warning alert of the engine
C35_Witness ==
    /\ call.op = "feed_weight_reading"
    /\ call.arg.is_moving
    /\ result.weight_result # None
    /\ result.weight_result[1].weight_drop_kg = 50
    /\ result.weight_result[1].severity = "high"
    /\ result.alert # None
    /\ result.alert[1].level = WARNING

\* the weight_drop_kg of the WeightAlerts recorded for a truck, added up
RECURSIVE SumOfDrops(_, _)
SumOfDrops(alerts, truck_id) ==
    IF alerts = <<>> THEN 0
    ELSE (IF Head(alerts).truck_id = truck_id THEN Head(alerts).weight_drop_kg ELSE 0)
         + SumOfDrops(Tail(alerts), truck_id)

\* C36: for every registered truck the total_detected_loss that
\* get_trip_summary reports is the sum of weight_drop_kg over the WeightAlerts
\* recorded for the truck, and alerts_count is the number of those alerts (one
\* per reading that dropped 10 kg or more), also after register_trip was
\* called again for the truck.
C36_SummaryMatchesAlerts ==
    \A t \in DOMAIN weight_profiles :
        LET s == get_trip_summary(Weights, t).ret
        IN  /\ s.total_detected_loss = SumOfDrops(weight_alerts, t)
            /\ s.alerts_count = Cardinality({ i \in DOMAIN weight_alerts :
                                                weight_alerts[i].truck_id = t })

\* the level from which _execute_level_actions calls a hook
HookLevel(h) ==
    CASE h = "on_sms_driver" -> WARNING
      [] h \in {"on_call_driver", "on_alert_control_center"} -> CRITICAL
      [] h = "on_dispatch_security" -> EMERGENCY

\* the escalation-history entries of an alert at a level or above
EntriesFrom(alert, level) ==
    Cardinality({ i \in DOMAIN alert.escalation_history :
                    LevelOfName(alert.escalation_history[i].level) >= level })

\* C37: a registered callback has been invoked for an alert as many times as
\* the alert's escalation history has entries at or above the callback's level
\* (Warning for on_sms_driver, Critical for on_call_driver and
\* on_alert_control_center, Emergency for on_dispatch_security): once per
\* action attachment, so again with every escalation from that level on; a
\* callback that is not registered is never invoked.
C37_HookPerAttachment ==
    \A a \in AllAlerts, h \in Hooks :
        CopiesIn(<<h, a.alert_id>>, invoked) =
            (IF h \in callbacks THEN EntriesFrom(a, HookLevel(h)) ELSE 0)

\* an alert created at Warning was escalated to Critical and on to Emergency:
\* on_sms_driver was invoked three times for it, on_call_driver twice
C37_Witness ==
    /\ call.op = "escalate_alert"
    /\ result # None
    /\ result[1].level = EMERGENCY
    /\ CopiesIn(<<"on_sms_driver", result[1].alert_id>>, invoked) = 3
    /\ CopiesIn(<<"on_call_driver", result[1].alert_id>>, invoked) = 2
    /\ CopiesIn(<<"on_dispatch_security", result[1].alert_id>>, invoked) = 1

\* C38: whatever callbacks raised in the calls so far, every active alert has
\* the cumulative action list of its level as actions_taken, and the last
\* entry of its escalation history names its level.
C38_ActionsFollowLevel ==
    \A id \in DOMAIN active_alerts :
        LET a == active_alerts[id]
        IN  /\ a.actions_taken = CumulativeActions(a.level)
            /\ a.escalation_history # <<>>
            /\ LevelOfName(a.escalation_history[Len(a.escalation_history)].level)
                  = a.level

\* C39: the first not-moving reading of a stop fixes the stop's location,
\* authorization, zone name and allowed duration by its own position and zone
\* lookup; later not-moving readings leave them alone wherever they are taken,
\* and every StopEvent of the stop, ongoing or completed, carries that location
\* and is classified by that lookup.
C39_StopFixedByFirstReading ==
    [][ call'.op = "stop_process_reading" =>
          LET t == call'.arg.truck_id
              here == is_in_authorized_zone(call'.arg.latitude, call'.arg.longitude)
          IN  /\ (~call'.arg.is_moving /\ t \notin DOMAIN active_stops) =>
                    /\ active_stops'[t].latitude = call'.arg.latitude
                    /\ active_stops'[t].longitude = call'.arg.longitude
                    /\ active_stops'[t].in_authorized_zone = here.in_zone
                    /\ active_stops'[t].zone_name =
                          (IF here.in_zone THEN Some(here.zone[1].name) ELSE None)
                    /\ active_stops'[t].max_allowed_duration =
                          (IF here.in_zone THEN here.zone[1].max_stop_duration_min
                           ELSE 0)
              /\ (~call'.arg.is_moving /\ t \in DOMAIN active_stops) =>
                    active_stops'[t] = active_stops[t]
              /\ (t \in DOMAIN active_stops /\ result' # None) =>
                    LET e == result'[1]
                    IN  /\ e.latitude = StopRecord.latitude
                        /\ e.longitude = StopRecord.longitude
                        /\ e.start_time = StopRecord.start_time
                        /\ e.is_authorized = StopZone.in_zone
                        /\ e.zone_name =
                              (IF StopZone.in_zone THEN Some(StopZone.zone[1].name)
                               ELSE None)
                        /\ e.is_suspicious <=>
                              (IF StopZone.in_zone
                                 THEN Elapsed > StopZone.zone[1].max_stop_duration_min
                                 ELSE Elapsed >= 10)
      ]_vars

\* a stop begun on the open road got a not-moving reading inside the rest
\* stop's zone: the ongoing event is that of an unauthorized stop on the open
\* road
C39_Witness ==
    /\ call.op = "stop_process_reading"
    /\ ~call.arg.is_moving
    /\ call.arg.latitude = RestStopRim.latitude
    /\ call.arg.longitude = RestStopRim.longitude
    /\ result # None
    /\ result[1].end_time = None
    /\ result[1].latitude = OpenRoad.latitude
    /\ result[1].longitude = OpenRoad.longitude
    /\ ~result[1].is_authorized

====
